---- MODULE Spec2Model ----
(***************************************************************************)
(* A model of the cloudstore package of cicconee/clox: the directory and   *)
(* file services that keep rows of a PostgreSQL database (directories,     *)
(* paths, files) and a tree on the local filesystem in step.               *)
(*                                                                         *)
(* The database is modelled at READ COMMITTED: a statement sees committed  *)
(* rows and the rows staged by its own transaction; an insert whose unique *)
(* key collides with a row staged by another open transaction waits until  *)
(* that transaction ends.  A step of a caller is one call that waits on    *)
(* the database or on the filesystem (one statement, BEGIN, COMMIT,        *)
(* ROLLBACK, one filesystem call) with the local computation that follows  *)
(* it, so that the steps of other callers and of the detached cleanups     *)
(* fall between any two such calls.  Strings are sequences of one-         *)
(* character strings, so that path cleaning and splitting are computed,    *)
(* not assumed.                                                            *)
(***************************************************************************)
EXTENDS Integers, Sequences, FiniteSets, TLC

VARIABLES
    directories,  \* committed rows of table directories
    paths,        \* committed rows of table paths (closure table)
    files,        \* committed rows of table files
    fsDirs,       \* physical directories: set of filesystem paths
    fsFiles,      \* physical files: set of [path, size]
    tx,           \* per caller: rows staged by its open transaction
    pc,           \* per caller: position inside the running call
    call,         \* per caller: the operation being run and its arguments
    w,            \* per caller: locals of the running write (DirService.write / FileService.write)
    rd,           \* per caller: locals of the running read (the loop of FindDir, FindFile, IO.ReadFileInfo)
    root,         \* per caller: the root directory id ValidateUser returned
    results,      \* per caller: the per-item results of the running batch
    ret,          \* per caller: what the last finished call returned
    cleanups,     \* detached goroutines `go s.Remove(..)` / `go s.removeFS(..)` not yet run
    logged,       \* paths written to the log by a failed cleanup
    nextID,       \* number of uuids generated so far
    faults        \* number of injected failures of writes so far

vars == <<directories, paths, files, fsDirs, fsFiles, tx, pc, call, w, rd, root,
          results, ret, cleanups, logged, nextID, faults>>

----------------------------------------------------------------------------
(* Bounds *)

\* uuids that may be generated in one behaviour
MaxIDs == 3
\* injected failures of a write (commit, mkdir, open, create, copy) in one
\* behaviour; each can be followed by a failure of its cleanup
MaxFaults == 1
\* files in one batch
MaxBatch == 2

----------------------------------------------------------------------------
(* Values *)

\* the concurrent callers, and the users they may act for
Procs == {"p1", "p2"}
Users == {"u1", "u2"}

\* strings are sequences of characters
S_root == <<"r", "o", "o", "t">>
Names  == {<<"a">>, <<"b">>}
EmptyStr == <<>>

\* uuid.NewString(): the n-th generated uuid
UUID(n) == <<"uuid", n>>
\* the empty string as an id; as a parent id it becomes SQL NULL
EmptyID == <<>>
\* a well-formed uuid that no row has
DanglingID == <<"uuid", 0>>
\* a string that is not a uuid
MalformedID == <<"not-a-uuid">>

IsUUID(id) == Len(id) = 2 /\ id[1] = "uuid"

\* the storage root; filesystem paths are sequences of path elements
FSRoot == <<"storage">>
\* the zero value of a path field (the empty string)
NoPath == <<>>

NoErr == "nil"

----------------------------------------------------------------------------
(* Strings *)

RECURSIVE Join(_, _)
\* strings.Join(elems, sep)
Join(elems, sep) ==
    IF Len(elems) = 0 THEN <<>>
    ELSE IF Len(elems) = 1 THEN elems[1]
    ELSE elems[1] \o sep \o Join(Tail(elems), sep)

HasPrefix(s, prefix) ==
    /\ Len(s) >= Len(prefix)
    /\ SubSeq(s, 1, Len(prefix)) = prefix

\* strings.TrimPrefix(s, prefix)
TrimPrefix(s, prefix) ==
    IF HasPrefix(s, prefix) THEN SubSeq(s, Len(prefix) + 1, Len(s)) ELSE s

----------------------------------------------------------------------------
(* The relational store: tables, transactions and queries *)

\* the SQL NULL of a nullable uuid column
Null == EmptyID

NoTx == [dirs |-> {}, paths |-> {}, files |-> {}]

\* what the statements of caller p's transaction see: committed rows and
\* the rows staged by that transaction itself
DirsOf(p)  == directories \cup tx[p].dirs
PathsOf(p) == paths \cup tx[p].paths
FilesOf(p) == files \cup tx[p].files

\* constraint unique_directory_name_parent: UNIQUE (name, parent_id)
unique_directory_name_parent(r, s) ==
    /\ r.parent_id # Null
    /\ s.parent_id = r.parent_id
    /\ s.name = r.name

\* constraint unique_user_root_directory: UNIQUE (user_id, name) WHERE parent_id IS NULL
unique_user_root_directory(r, s) ==
    /\ r.parent_id = Null
    /\ s.parent_id = Null
    /\ s.user_id = r.user_id
    /\ s.name = r.name

\* an insert of row r by p waits while another open transaction holds a
\* staged row with the same unique key
InsertDirectoryWaits(p, r) ==
    /\ IsUUID(r.parent_id) \/ r.parent_id = Null
    /\ \E q \in Procs \ {p} : \E s \in tx[q].dirs :
          unique_directory_name_parent(r, s) \/ unique_user_root_directory(r, s)

\* Query.InsertDirectory when a duplicate (name, parent_id) goes undetected
InsertDirectoryNoSiblingCheck(D, r) ==
    IF ~(IsUUID(r.parent_id) \/ r.parent_id = Null) THEN "ErrSyntaxParentID"
    ELSE IF \E s \in D : unique_user_root_directory(r, s) THEN "ErrUniqueUserRoot"
    ELSE IF r.parent_id # Null /\ ~(\E s \in D : s.id = r.parent_id) THEN "ErrForeignKeyParentID"
    ELSE NoErr

\* Query.InsertDirectory when a second root of a user goes undetected
InsertDirectoryNoRootCheck(D, r) ==
    IF ~(IsUUID(r.parent_id) \/ r.parent_id = Null) THEN "ErrSyntaxParentID"
    ELSE IF \E s \in D : unique_directory_name_parent(r, s) THEN "ErrUniqueNameParentID"
    ELSE IF r.parent_id # Null /\ ~(\E s \in D : s.id = r.parent_id) THEN "ErrForeignKeyParentID"
    ELSE NoErr

\* Query.InsertDirectory: the error it returns for row r in the rows D seen.
\* A parent id that is not a uuid is rejected by the column's type; the
\* query returns the driver's error unmapped, and DirService.write tests
\* for it under the name ErrSyntaxParentID.
InsertDirectory(D, r) ==
    IF ~(IsUUID(r.parent_id) \/ r.parent_id = Null) THEN "ErrSyntaxParentID"
    ELSE IF \E s \in D : unique_directory_name_parent(r, s) THEN "ErrUniqueNameParentID"
    ELSE IF \E s \in D : unique_user_root_directory(r, s) THEN "ErrUniqueUserRoot"
    ELSE IF r.parent_id # Null /\ ~(\E s \in D : s.id = r.parent_id) THEN "ErrForeignKeyParentID"
    ELSE NoErr

\* Query.InsertSelfPath: the depth-0 row
InsertSelfPath(directoryID) ==
    {[parent_id |-> directoryID, child_id |-> directoryID, depth |-> 0]}

\* Query.InsertParentPaths when the depth is copied and not incremented
InsertParentPathsSameDepth(P, parentID, childID) ==
    {[parent_id |-> r.parent_id, child_id |-> childID, depth |-> r.depth] :
        r \in {x \in P : x.child_id = parentID}}

\* Query.InsertParentPaths: every path row of the parent, re-pointed at the
\* child with depth + 1
InsertParentPaths(P, parentID, childID) ==
    {[parent_id |-> r.parent_id, child_id |-> childID, depth |-> r.depth + 1] :
        r \in {x \in P : x.child_id = parentID}}

\* FROM paths p JOIN directories d ON p.parent_id = d.id WHERE p.child_id = id
PathJoin(D, P, id) ==
    {[d |-> d, depth |-> p.depth] :
        <<p, d>> \in {x \in P \X D : x[1].child_id = id /\ x[1].parent_id = x[2].id}}

RECURSIVE OrderByDepthDesc(_)
\* ORDER BY depth DESC (rows of equal depth come in an order SQL leaves open)
OrderByDepthDesc(rows) ==
    IF rows = {} THEN <<>>
    ELSE LET top == CHOOSE r \in rows : \A o \in rows : o.depth <= r.depth
         IN  <<top>> \o OrderByDepthDesc(rows \ {top})

\* Query.SelectDirectoryFSPath when it selects d.name in place of d.id
SelectDirectoryFSPathByName(D, P, id) ==
    LET rows == OrderByDepthDesc(PathJoin(D, P, id))
    IN  [i \in 1..Len(rows) |-> rows[i].d.name]

\* Query.SelectDirectoryFSPath: the ids from the root down to the directory
SelectDirectoryFSPath(D, P, id) ==
    LET rows == OrderByDepthDesc(PathJoin(D, P, id))
    IN  [i \in 1..Len(rows) |-> rows[i].d.id]

\* Query.SelectDirectoryPath: the names from the root down to the directory
SelectDirectoryPath(D, P, id) ==
    LET rows == OrderByDepthDesc(PathJoin(D, P, id))
    IN  [i \in 1..Len(rows) |-> rows[i].d.name]

\* Query.SelectUserRootDirectory: the rows matched (none means sql.ErrNoRows)
SelectUserRootDirectory(D, userID) ==
    {r \in D : r.parent_id = Null /\ r.name = S_root /\ r.user_id = userID}

\* Query.SelectDirectoryByUserNameParent when the owner is not compared
SelectDirectoryByNameParent(D, userID, name, parentID) ==
    IF ~IsUUID(parentID) THEN [err |-> "ErrSyntaxID", rows |-> {}]
    ELSE [err |-> NoErr,
          rows |-> {r \in D : r.name = name /\ r.parent_id = parentID}]

\* Query.SelectDirectoryByUserNameParent: the rows matched (none means
\* sql.ErrNoRows).  The parameter compared with the uuid column parent_id is
\* a string: one that is not a uuid, the empty string too, is rejected by the
\* database, and the query hands back the driver's error.
SelectDirectoryByUserNameParent(D, userID, name, parentID) ==
    IF ~IsUUID(parentID) THEN [err |-> "ErrSyntaxID", rows |-> {}]
    ELSE [err |-> NoErr,
          rows |-> {r \in D : r.user_id = userID /\ r.name = name
                                /\ r.parent_id = parentID}]

\* Query.SelectDirectoryByIDUser: the rows matched, or the driver's error
\* for an id that is not a uuid
SelectDirectoryByIDUser(D, directoryID, userID) ==
    IF ~IsUUID(directoryID) THEN [err |-> "ErrSyntaxID", rows |-> {}]
    ELSE [err |-> NoErr,
          rows |-> {r \in D : r.id = directoryID /\ r.user_id = userID}]

\* constraint on files: UNIQUE (directory_id, name)
unique_file_name_directory(r, s) ==
    /\ s.directory_id = r.directory_id
    /\ s.name = r.name

\* an insert of file row r by p waits while another open transaction holds
\* a staged row with the same unique key
InsertFileWaits(p, r) ==
    \E q \in Procs \ {p} : \E s \in tx[q].files : unique_file_name_directory(r, s)

\* Query.InsertFile: the error it returns for row r in the rows seen
InsertFile(D, F, r) ==
    IF \E s \in F : unique_file_name_directory(r, s) THEN "ErrUniqueDirectoryIDName"
    ELSE IF ~(\E d \in D : d.id = r.directory_id) THEN "ErrForeignKeyDirectoryID"
    ELSE NoErr

\* Query.SelectFileByIDUser when the owner is not compared
SelectFileByID(F, fileID, userID) ==
    IF ~IsUUID(fileID) THEN [err |-> "ErrSyntaxID", rows |-> {}]
    ELSE [err |-> NoErr, rows |-> {r \in F : r.id = fileID}]

\* Query.SelectFileByIDUser: the rows matched, or the driver's error for an
\* id that is not a uuid
SelectFileByIDUser(F, fileID, userID) ==
    IF ~IsUUID(fileID) THEN [err |-> "ErrSyntaxID", rows |-> {}]
    ELSE [err |-> NoErr,
          rows |-> {r \in F : r.id = fileID /\ r.user_id = userID}]

\* Query.SelectFileByUserDirName: the rows matched, or the driver's error
\* for a directory id that is not a uuid
SelectFileByUserDirName(F, userID, directoryID, name) ==
    IF ~IsUUID(directoryID) THEN [err |-> "ErrSyntaxID", rows |-> {}]
    ELSE [err |-> NoErr,
          rows |-> {r \in F : r.user_id = userID /\ r.directory_id = directoryID
                                /\ r.name = name}]

----------------------------------------------------------------------------
(* filepath.Clean and strings.Split, as the standard library computes them *)

RECURSIVE Backtrack(_, _, _)
\* the ".." case of Clean: drop characters from the end of the buffer until
\* a separator was dropped or the mark dotdot is reached
Backtrack(out, wlen, dotdot) ==
    IF wlen > dotdot /\ out[wlen + 1] # "/"
    THEN Backtrack(out, wlen - 1, dotdot)
    ELSE SubSeq(out, 1, wlen)

RECURSIVE ElementEnd(_, _)
\* the index after the path element that starts at r (1-based)
ElementEnd(path, r) ==
    IF r <= Len(path) /\ path[r] # "/" THEN ElementEnd(path, r + 1) ELSE r

RECURSIVE CleanLoop(_, _, _, _, _)
\* the loop of filepath.Clean; r is the 1-based read position
CleanLoop(path, r, out, dotdot, rooted) ==
    LET n == Len(path) IN
    IF r > n THEN out
    ELSE IF path[r] = "/" THEN CleanLoop(path, r + 1, out, dotdot, rooted)
    ELSE IF path[r] = "." /\ (r = n \/ path[r + 1] = "/")
         THEN CleanLoop(path, r + 1, out, dotdot, rooted)
    ELSE IF path[r] = "." /\ path[r + 1] = "." /\ (r + 1 = n \/ path[r + 2] = "/")
         THEN IF Len(out) > dotdot
              THEN CleanLoop(path, r + 2, Backtrack(out, Len(out) - 1, dotdot), dotdot, rooted)
              ELSE IF ~rooted
              THEN LET o2 == (IF Len(out) > 0 THEN out \o <<"/">> ELSE out) \o <<".", ".">>
                   IN  CleanLoop(path, r + 2, o2, Len(o2), rooted)
              ELSE CleanLoop(path, r + 2, out, dotdot, rooted)
    ELSE LET o1 == IF (rooted /\ Len(out) # 1) \/ (~rooted /\ Len(out) # 0)
                   THEN out \o <<"/">> ELSE out
             e  == ElementEnd(path, r)
         IN  CleanLoop(path, e, o1 \o SubSeq(path, r, e - 1), dotdot, rooted)

\* filepath.Clean(path)
Clean(path) ==
    IF path = <<>> THEN <<".">>
    ELSE LET rooted == path[1] = "/"
             out == IF rooted THEN CleanLoop(path, 2, <<"/">>, 1, TRUE)
                    ELSE CleanLoop(path, 1, <<>>, 0, FALSE)
         IN  IF out = <<>> THEN <<".">> ELSE out

RECURSIVE Split(_)
\* strings.Split(s, "/")
Split(s) ==
    LET e == ElementEnd(s, 1)
    IN  IF e > Len(s) THEN <<s>>
        ELSE <<SubSeq(s, 1, e - 1)>> \o Split(SubSeq(s, e + 1, Len(s)))

----------------------------------------------------------------------------
(* PathMapper: from paths to ids *)

\* PathMapper.FindDir when the path is split as it was given
PathSegmentsNoClean(path) ==
    LET p == IF path = <<>> \/ path = <<"/">> THEN S_root
             ELSE IF path[1] = "/" THEN S_root \o path
             ELSE S_root \o <<"/">> \o path
    IN  Split(p)

\* the segments PathMapper.FindDir walks: "root" followed by the elements of
\* the cleaned path
PathSegments(path) ==
    LET fp == Clean(path)
        p  == IF fp = <<".">> \/ fp = <<"/">> THEN S_root
              ELSE IF fp[1] = "/" THEN S_root \o fp
              ELSE S_root \o <<"/">> \o fp
    IN  Split(p)

\* one round of the loop of FindDir when a segment that has no match is
\* skipped unless it is the last one
FindDirLoopSkipsMissing(D, userID, segs, i, directoryID) ==
    LET res == SelectDirectoryByUserNameParent(D, userID, segs[i], directoryID) IN
    IF res.err # NoErr THEN [err |-> res.err, id |-> EmptyID, missing |-> <<>>]
    ELSE IF res.rows = {}
    THEN IF i = Len(segs)
         THEN [err |-> "NotFound", id |-> EmptyID,
               missing |-> Join(SubSeq(segs, 2, i), <<"/">>)]
         ELSE [err |-> NoErr, id |-> directoryID, missing |-> <<>>]
    ELSE [err |-> NoErr, id |-> (CHOOSE r \in res.rows : TRUE).id, missing |-> <<>>]

\* one round of the loop of PathMapper.FindDir: the directory named segs[i]
\* below directoryID is selected; sql.ErrNoRows is wrapped as a not-found
\* error that names the path up to the segment, any other error is handed
\* back as it is
FindDirLoop(D, userID, segs, i, directoryID) ==
    LET res == SelectDirectoryByUserNameParent(D, userID, segs[i], directoryID) IN
    IF res.err # NoErr THEN [err |-> res.err, id |-> EmptyID, missing |-> <<>>]
    ELSE IF res.rows = {}
    THEN [err |-> "NotFound", id |-> EmptyID,
          missing |-> Join(SubSeq(segs, 2, i), <<"/">>)]
    ELSE [err |-> NoErr, id |-> (CHOOSE r \in res.rows : TRUE).id, missing |-> <<>>]

RECURSIVE FindDirWalk(_, _, _, _, _)
\* the loop of PathMapper.FindDir from segment i on, over the rows D
FindDirWalk(D, userID, segs, i, directoryID) ==
    IF i > Len(segs) THEN [err |-> NoErr, id |-> directoryID, missing |-> <<>>]
    ELSE LET res == FindDirLoop(D, userID, segs, i, directoryID)
         IN  IF res.err # NoErr THEN res
             ELSE FindDirWalk(D, userID, segs, i + 1, res.id)

\* PathMapper.FindDir (and the same walk inlined in DirService.NewPath) over
\* the rows D, as one caller alone runs it
FindDir(D, userID, rootID, path) ==
    FindDirWalk(D, userID, PathSegments(path), 2, rootID)

\* filepath.Split(path): the directory part, up to and with the last
\* separator, and the file name after it
FilepathSplit(path) ==
    LET i == IF \E k \in 1..Len(path) : path[k] = "/"
             THEN CHOOSE k \in 1..Len(path) :
                      path[k] = "/" /\ \A j \in (k + 1)..Len(path) : path[j] # "/"
             ELSE 0
    IN  [dir |-> SubSeq(path, 1, i), file |-> SubSeq(path, i + 1, Len(path))]

\* PathMapper.FindFile over the rows D and F, as one caller alone runs it:
\* the id of the file a path names
FindFile(D, F, userID, rootID, path) ==
    LET sp == FilepathSplit(path) IN
    IF sp.file = <<>> THEN [err |-> "InvalidInput", id |-> EmptyID]
    ELSE LET found == FindDir(D, userID, rootID, sp.dir) IN
         IF found.err # NoErr THEN [err |-> found.err, id |-> EmptyID]
         ELSE LET res == SelectFileByUserDirName(F, userID, found.id, sp.file) IN
              IF res.err # NoErr THEN [err |-> res.err, id |-> EmptyID]
              ELSE IF res.rows = {} THEN [err |-> "NotFound", id |-> EmptyID]
              ELSE [err |-> NoErr, id |-> (CHOOSE r \in res.rows : TRUE).id]

----------------------------------------------------------------------------
(* PathMapper: from ids to paths *)

\* PathMapper.GetDir: the name path of a directory, "/" for the user's root
GetDir(D, P, id) ==
    LET userPath == TrimPrefix(Join(SelectDirectoryPath(D, P, id), <<"/">>), S_root)
    IN  IF userPath = <<>> THEN <<"/">> ELSE userPath

\* PathMapper.GetFile when the separator is always put before the name
GetFileAlwaysSeparator(D, P, dirID, filename) ==
    GetDir(D, P, dirID) \o <<"/">> \o filename

\* PathMapper.GetFile: the name path of a file
GetFile(D, P, dirID, filename) ==
    LET dirPath == GetDir(D, P, dirID)
    IN  IF dirPath = <<"/">> THEN dirPath \o filename
        ELSE dirPath \o <<"/">> \o filename

\* PathMapper.GetDirFS: <storage root>/<id>/<id>/...; a filesystem path is
\* kept as the sequence of its elements
GetDirFS(D, P, id) == <<FSRoot>> \o SelectDirectoryFSPath(D, P, id)

\* PathMapper.GetFileFS: <directory filesystem path>/<file id>
GetFileFS(D, P, dirID, fileID) ==
    <<FSRoot>> \o SelectDirectoryFSPath(D, P, dirID) \o <<fileID>>

----------------------------------------------------------------------------
(* OSFileSystem *)

\* os.Mkdir succeeds when the parent exists and the name is not taken
MkdirOK(path) ==
    /\ Len(path) > 1
    /\ SubSeq(path, 1, Len(path) - 1) \in fsDirs
    /\ path \notin fsDirs
    /\ \A f \in fsFiles : f.path # path

\* path lies at or below top
Under(path, top) ==
    /\ Len(path) >= Len(top)
    /\ SubSeq(path, 1, Len(top)) = top

----------------------------------------------------------------------------
----------------------------------------------------------------------------
(* Callers *)

\* the committed rows of directories and paths at one moment
NoSnapshot == [dirs |-> {}, paths |-> {}]
Snapshot == [dirs |-> directories, paths |-> paths]

\* a call: its operation and arguments; before is a history field that no
\* action reads, the committed rows when a New or NewPath call began, kept
\* with the error the call returned
NoCall == [op |-> "none", user |-> "", name |-> EmptyStr, parentID |-> EmptyID,
           path |-> EmptyStr, directoryID |-> EmptyID, fileHeaders |-> <<>>,
           before |-> NoSnapshot]

\* the locals of DirService.write / FileService.write and of the IO call
\* inside its transaction; err is the error Store.Tx hands to Store.rollback,
\* out the FSPath of the variable (dir / file) that the transaction function
\* assigns when IO.NewDir / IO.NewFile succeeded
NoWrite == [kind |-> "none", id |-> EmptyID, user |-> "", name |-> EmptyStr,
            parent |-> EmptyID, fsPath |-> NoPath, userPath |-> EmptyStr,
            out |-> NoPath, by |-> "none", free |-> FALSE, size |-> 0,
            err |-> NoErr]

\* the FileInfo of no file, with error err
NoFileInfo(err) ==
    [ID |-> EmptyID, OwnerID |-> "", DirectoryID |-> EmptyID, Name |-> EmptyStr,
     Path |-> EmptyStr, Size |-> 0, Err |-> err]

\* the locals of a read: the segments, the index and the directory id of
\* the loop of FindDir, the file name FindFile split off the path, and the
\* row, the user path and the filesystem path IO.ReadFileInfo has read
NoRead == [segs |-> <<>>, i |-> 0, id |-> EmptyID, file |-> EmptyStr,
           info |-> NoFileInfo(NoErr), fsPath |-> NoPath]

NoRet == [op |-> "none", user |-> "", err |-> NoErr, stage |-> "none",
          id |-> EmptyID, path |-> EmptyStr, name |-> EmptyStr,
          parent |-> EmptyID, newID |-> EmptyID, free |-> FALSE,
          results |-> <<>>, before |-> NoSnapshot, arg |-> EmptyStr,
          rbErr |-> FALSE]

Init ==
    /\ directories = {}
    /\ paths = {}
    /\ files = {}
    /\ fsDirs = {<<FSRoot>>}
    /\ fsFiles = {}
    /\ tx = [p \in Procs |-> NoTx]
    /\ pc = [p \in Procs |-> "idle"]
    /\ call = [p \in Procs |-> NoCall]
    /\ w = [p \in Procs |-> NoWrite]
    /\ rd = [p \in Procs |-> NoRead]
    /\ root = [p \in Procs |-> EmptyID]
    /\ results = [p \in Procs |-> <<>>]
    /\ ret = [p \in Procs |-> NoRet]
    /\ cleanups = {}
    /\ logged = {}
    /\ nextID = 0
    /\ faults = 0

\* the call of caller p returns r
Return(p, r) ==
    /\ pc' = [pc EXCEPT ![p] = "idle"]
    /\ ret' = [ret EXCEPT ![p] = r]
    /\ call' = [call EXCEPT ![p] = NoCall]
    /\ w' = [w EXCEPT ![p] = NoWrite]
    /\ rd' = [rd EXCEPT ![p] = NoRead]
    /\ root' = [root EXCEPT ![p] = EmptyID]
    /\ results' = [results EXCEPT ![p] = <<>>]

\* the call c of caller p goes on: its next call to the database or the
\* filesystem is the one of position pos, with the locals wr of its write
\* and r of its read, the root id rootID and the results rs of its batch
Goto(p, pos, c, wr, r, rootID, rs) ==
    /\ pc' = [pc EXCEPT ![p] = pos]
    /\ ret' = [ret EXCEPT ![p] = NoRet]
    /\ call' = [call EXCEPT ![p] = c]
    /\ w' = [w EXCEPT ![p] = wr]
    /\ rd' = [rd EXCEPT ![p] = r]
    /\ root' = [root EXCEPT ![p] = rootID]
    /\ results' = [results EXCEPT ![p] = rs]

\* the value a directory call c returns: err is the sentinel error the
\* returned error wraps (NoErr for success), stage the step that decided it,
\* wr the write the call ran last
DirRet(c, wr, err, stage, id, path) ==
    [NoRet EXCEPT !.op = c.op, !.user = c.user, !.err = err,
                  !.stage = stage, !.id = id, !.path = path,
                  !.name = wr.name, !.parent = wr.parent,
                  !.newID = wr.id, !.free = wr.free,
                  !.before = IF err # NoErr THEN c.before ELSE NoSnapshot,
                  !.arg = IF c.op \in {"NewPath", "FindDir"} THEN c.path ELSE EmptyStr]

\* DirService.write begins for call c of caller p: its first call is the
\* BEGIN of Store.Tx.  free is a history field that no action reads: no
\* committed row had the name under the parent when the write began.
BeginDirWrite(p, c, name, parentID, by, rootID) ==
    Goto(p, "Begin",
         IF by = "new"
         THEN [NoCall EXCEPT !.op = c.op, !.user = c.user,
                             !.before = c.before, !.path = c.path]
         ELSE c,
         [NoWrite EXCEPT !.kind = "dir", !.user = c.user, !.name = name,
                         !.parent = parentID, !.by = by,
                         !.free = ~\E s \in directories :
                                     /\ s.name = name
                                     /\ s.parent_id = parentID
                                     /\ parentID = Null => s.user_id = c.user],
         NoRead, rootID, <<>>)

\* FileService.write begins for header i of the batch of call c, after the
\* results rs of the headers before it: its first call is the BEGIN of
\* Store.Tx
BeginFileWrite(p, c, i, rootID, rs) ==
    Goto(p, "Begin", c,
         [NoWrite EXCEPT !.kind = "file", !.user = c.user,
                         !.name = c.fileHeaders[i].Filename,
                         !.size = c.fileHeaders[i].Size,
                         !.parent = c.directoryID, !.by = "saveBatch"],
         NoRead, rootID, rs)

\* the loop of FileService.saveBatch over the headers of call c, the results
\* rs of the headers before collected: with every header written (at once
\* for an empty batch) saveBatch returns the results and no error, else the
\* write of the next header begins
saveBatchLoop(p, c, rootID, rs) ==
    IF Len(rs) = Len(c.fileHeaders)
    THEN Return(p, [NoRet EXCEPT !.op = c.op, !.user = c.user,
                                 !.stage = "saveBatch",
                                 !.parent = c.directoryID, !.results = rs])
    ELSE BeginFileWrite(p, c, Len(rs) + 1, rootID, rs)

\* the per-item result when a failed write returns no FileInfo at all
BatchSaveZeroOnError(wr, err) ==
    IF err = NoErr
    THEN [ID |-> wr.id, OwnerID |-> wr.user, DirectoryID |-> wr.parent,
          Name |-> wr.name, Path |-> wr.userPath, Size |-> wr.size, Err |-> NoErr]
    ELSE [ID |-> EmptyID, OwnerID |-> "", DirectoryID |-> EmptyID,
          Name |-> EmptyStr, Path |-> EmptyStr, Size |-> 0, Err |-> err]

\* the per-item result FileService.write returns: the FileInfo of a saved
\* file, or only the name and size of the header with the error
BatchSave(wr, err) ==
    IF err = NoErr
    THEN [ID |-> wr.id, OwnerID |-> wr.user, DirectoryID |-> wr.parent,
          Name |-> wr.name, Path |-> wr.userPath, Size |-> wr.size, Err |-> NoErr]
    ELSE [ID |-> EmptyID, OwnerID |-> "", DirectoryID |-> EmptyID,
          Name |-> wr.name, Path |-> EmptyStr, Size |-> wr.size, Err |-> err]

\* IO.ReadFileInfo over the rows D, P, F and the physical files FS, as one
\* caller alone runs it: the row of the user's file, its paths, and its size
\* on the filesystem
ReadFileInfo(D, P, F, FS, userID, fileID) ==
    LET res == SelectFileByIDUser(F, fileID, userID) IN
    IF res.err # NoErr THEN NoFileInfo(res.err)
    ELSE IF res.rows = {} THEN NoFileInfo("ErrNoRows")
    ELSE LET row == CHOOSE r \in res.rows : TRUE
             fsPath == GetFileFS(D, P, row.directory_id, row.id)
             stat == {f \in FS : f.path = fsPath}
         IN  IF stat = {} THEN NoFileInfo("ErrStat")
             ELSE [ID |-> row.id, OwnerID |-> row.user_id,
                   DirectoryID |-> row.directory_id, Name |-> row.name,
                   Path |-> GetFile(D, P, row.directory_id, row.name),
                   Size |-> (CHOOSE f \in stat : TRUE).size, Err |-> NoErr]

\* FileService.Info over the same: a file that has no row of the user is
\* not found
Info(D, P, F, FS, userID, fileID) ==
    LET file == ReadFileInfo(D, P, F, FS, userID, fileID)
    IN  IF file.Err = "ErrNoRows" THEN NoFileInfo("NotFound") ELSE file

\* the value Info and InfoPath return for call c
InfoRet(c, stage, file) ==
    [NoRet EXCEPT !.op = c.op, !.user = c.user, !.err = file.Err, !.stage = stage,
                  !.id = file.ID, !.path = file.Path, !.name = file.Name,
                  !.parent = file.DirectoryID,
                  !.results = IF file.Err = NoErr THEN <<file>> ELSE <<>>]

\* the value PathMapper.FindFile returns for call c
FindFileRet(c, err, id) ==
    [NoRet EXCEPT !.op = "FindFile", !.user = c.user, !.err = err,
                  !.stage = "FindFile", !.id = id, !.arg = c.path]

\* IO.ReadFileInfo, its first call, for call c of caller p:
\* Query.SelectFileByIDUser reads the row of the user's file.
\* FileService.Info hands a not-found error back for sql.ErrNoRows and any
\* other error as it is.
SelectFile(p, c, fileID, rootID) ==
    LET res == SelectFileByIDUser(files, fileID, c.user) IN
    IF res.err # NoErr
    THEN Return(p, [InfoRet(c, "Info", NoFileInfo(res.err)) EXCEPT !.arg = fileID])
    ELSE IF res.rows = {}
    THEN Return(p, [InfoRet(c, "Info", NoFileInfo("NotFound")) EXCEPT !.arg = fileID])
    ELSE LET row == CHOOSE r \in res.rows : TRUE IN
         Goto(p, "ReadFileInfo.GetFile", c, NoWrite,
              [NoRead EXCEPT !.info =
                  [NoFileInfo(NoErr) EXCEPT !.ID = row.id, !.OwnerID = row.user_id,
                                            !.DirectoryID = row.directory_id,
                                            !.Name = row.name]],
              rootID, <<>>)

\* the loop of FindDir ended for call c with the directory id: NewPath
\* writes the directory below it, SaveBatchPath the first file into it,
\* FindDir returns it (the value keeps the root id the call was given),
\* FindFile goes on to select the file in it
Found(p, c, id, r, rootID) ==
    IF c.op = "NewPath" THEN BeginDirWrite(p, c, c.name, id, "new", rootID)
    ELSE IF c.op = "SaveBatchPath"
    THEN saveBatchLoop(p, [c EXCEPT !.directoryID = id], rootID, <<>>)
    ELSE IF c.op = "FindDir"
    THEN Return(p, [DirRet(c, NoWrite, NoErr, "FindDir", id, <<>>)
                       EXCEPT !.parent = rootID])
    ELSE Goto(p, "FindFile", c, NoWrite, [r EXCEPT !.id = id], rootID, <<>>)

\* the loop of FindDir ended for call c with the error of res: every caller
\* of FindDir hands it back as it is
NotFound(p, c, res) ==
    IF c.op = "NewPath"
    THEN Return(p, [DirRet(c, NoWrite, res.err, "parentFunc", EmptyID, res.missing)
                       EXCEPT !.name = c.name])
    ELSE IF c.op = "SaveBatchPath"
    THEN Return(p, DirRet(c, NoWrite, res.err, "getDirID", EmptyID, res.missing))
    ELSE IF c.op = "FindDir"
    THEN Return(p, [DirRet(c, NoWrite, res.err, "FindDir", EmptyID, res.missing)
                       EXCEPT !.parent = root[p]])
    ELSE IF c.op = "FindFile"
    THEN Return(p, FindFileRet(c, res.err, EmptyID))
    ELSE Return(p, InfoRet(c, "FindFile", NoFileInfo(res.err)))

\* PathMapper.FindDir (and the walk of DirService.NewPath) begins for call c
\* below rootID: the path is cleaned and split, and the loop starts at the
\* segment after "root"; with no such segment the root id is the result and
\* nothing is selected
FindDirBegin(p, c, rootID, path, file) ==
    LET segs == PathSegments(path) IN
    IF Len(segs) < 2
    THEN Found(p, c, rootID, [NoRead EXCEPT !.file = file], rootID)
    ELSE Goto(p, "FindDir", c, NoWrite,
              [NoRead EXCEPT !.segs = segs, !.i = 2, !.id = rootID, !.file = file],
              rootID, <<>>)

\* PathMapper.FindFile begins for call c below rootID: a path with no file
\* name is rejected, else FindDir resolves the directory part
FindFileBegin(p, c, rootID) ==
    LET sp == FilepathSplit(c.path) IN
    IF sp.file = <<>>
    THEN IF c.op = "FindFile"
         THEN Return(p, FindFileRet(c, "InvalidInput", EmptyID))
         ELSE Return(p, InfoRet(c, "FindFile", NoFileInfo("InvalidInput")))
    ELSE FindDirBegin(p, c, rootID, sp.dir, sp.file)

\* the getDirID of SaveBatchPath when the walk starts at the root of any user
GetDirIDPathAnyRoot(p, c, rootID) ==
    \E t \in {r \in directories : r.parent_id = Null} :
       FindDirBegin(p, c, t.id, c.path, EmptyStr)

\* the getDirID of SaveBatchPath: PathMapper.FindDir on the path, below the
\* root of the user
GetDirIDPath(p, c, rootID) == FindDirBegin(p, c, rootID, c.path, EmptyStr)

\* what follows ValidateUser in the call c, once it has returned rootID:
\* the parentFunc of DirService.new and then DirService.write, the getDirID
\* of FileService.saveBatch and then the first FileService.write, or the
\* FindFile of InfoPath
Validated(p, c, rootID) ==
    IF c.op = "New"
    THEN BeginDirWrite(p, c, c.name,
                       IF c.parentID = EmptyID THEN rootID ELSE c.parentID,
                       "new", rootID)
    ELSE IF c.op = "NewPath" THEN FindDirBegin(p, c, rootID, c.path, EmptyStr)
    ELSE IF c.op = "SaveBatch"
    THEN IF c.directoryID = EmptyID
         THEN saveBatchLoop(p, [c EXCEPT !.directoryID = rootID], rootID, <<>>)
         ELSE Goto(p, "getDirID", c, NoWrite, NoRead, rootID, <<>>)
    ELSE IF c.op = "SaveBatchPath" THEN GetDirIDPath(p, c, rootID)
    ELSE FindFileBegin(p, c, rootID)

\* DirService.ValidateUser when it writes a root without selecting first
ValidateUserAlwaysWrites(p, c) ==
    BeginDirWrite(p, c, S_root, EmptyID, "ValidateUser", EmptyID)

\* DirService.ValidateUser for call c, its first call:
\* Query.SelectUserRootDirectory reads the user's root.  The root that is
\* there is handed on; when there is none (sql.ErrNoRows) DirService.write
\* begins for a new root.
ValidateUser(p, c) ==
    LET rows == SelectUserRootDirectory(directories, c.user) IN
    IF rows # {}
    THEN LET row == CHOOSE r \in rows : TRUE IN
         IF c.op = "ValidateUser"
         THEN Return(p, DirRet(c, NoWrite, NoErr, "found", row.id, <<"/">>))
         ELSE Validated(p, c, row.id)
    ELSE BeginDirWrite(p, c, S_root, EmptyID, "ValidateUser", EmptyID)

\* a client calls DirService.ValidateUser (EnsureUserRoot)
CallValidateUser(p, userID) ==
    /\ pc[p] = "idle"
    /\ ValidateUser(p, [NoCall EXCEPT !.op = "ValidateUser", !.user = userID])
    /\ UNCHANGED <<directories, paths, files, fsDirs, fsFiles, tx,
                   cleanups, logged, nextID, faults>>

\* a client calls DirService.NewUser: DirService.write begins for a root,
\* and nothing is selected before
CallNewUser(p, userID) ==
    /\ pc[p] = "idle"
    /\ BeginDirWrite(p, [NoCall EXCEPT !.op = "NewUser", !.user = userID],
                     S_root, EmptyID, "NewUser", EmptyID)
    /\ UNCHANGED <<directories, paths, files, fsDirs, fsFiles, tx,
                   cleanups, logged, nextID, faults>>

\* DirService.new without the check of the name
newNoNameCheck(p, c) ==
    /\ pc[p] = "idle"
    /\ ValidateUser(p, c)
    /\ UNCHANGED <<directories, paths, files, fsDirs, fsFiles, tx,
                   cleanups, logged, nextID, faults>>

\* DirService.new up to its first call: an empty name is rejected before
\* anything else; then ValidateUser selects the root
new(p, c) ==
    /\ pc[p] = "idle"
    /\ IF c.name = EmptyStr
       THEN Return(p, DirRet(c, NoWrite, "InvalidInput", "name", EmptyID, EmptyStr))
       ELSE ValidateUser(p, c)
    /\ UNCHANGED <<directories, paths, files, fsDirs, fsFiles, tx,
                   cleanups, logged, nextID, faults>>

\* a client calls DirService.New (CreateByParent)
CallNew(p, userID, name, parentID) ==
    new(p, [NoCall EXCEPT !.op = "New", !.user = userID, !.name = name,
                          !.parentID = parentID, !.before = Snapshot])

\* a client calls DirService.NewPath (CreateByPath)
CallNewPath(p, userID, name, path) ==
    new(p, [NoCall EXCEPT !.op = "NewPath", !.user = userID, !.name = name,
                          !.path = path, !.before = Snapshot])

\* a client calls PathMapper.FindDir (FindDirectory) with a root id
CallFindDir(p, userID, rootID, path) ==
    /\ pc[p] = "idle"
    /\ FindDirBegin(p, [NoCall EXCEPT !.op = "FindDir", !.user = userID, !.path = path],
                    rootID, path, EmptyStr)
    /\ UNCHANGED <<directories, paths, files, fsDirs, fsFiles, tx,
                   cleanups, logged, faults, nextID>>

\* PathMapper.FindFile when the directory part is walked before the file
\* name is looked at
CallFindFileDirFirst(p, userID, rootID, path) ==
    /\ pc[p] = "idle"
    /\ FindDirBegin(p, [NoCall EXCEPT !.op = "FindFile", !.user = userID, !.path = path],
                    rootID, FilepathSplit(path).dir, FilepathSplit(path).file)
    /\ UNCHANGED <<directories, paths, files, fsDirs, fsFiles, tx,
                   cleanups, logged, faults, nextID>>

\* a client calls PathMapper.FindFile with a root id
CallFindFile(p, userID, rootID, path) ==
    /\ pc[p] = "idle"
    /\ FindFileBegin(p, [NoCall EXCEPT !.op = "FindFile", !.user = userID, !.path = path],
                     rootID)
    /\ UNCHANGED <<directories, paths, files, fsDirs, fsFiles, tx,
                   cleanups, logged, faults, nextID>>

\* a client calls FileService.SaveBatch: ValidateUser selects the root
CallSaveBatch(p, userID, directoryID, fileHeaders) ==
    /\ pc[p] = "idle"
    /\ ValidateUser(p, [NoCall EXCEPT !.op = "SaveBatch", !.user = userID,
                                      !.directoryID = directoryID,
                                      !.fileHeaders = fileHeaders])
    /\ UNCHANGED <<directories, paths, files, fsDirs, fsFiles, tx,
                   cleanups, logged, nextID, faults>>

\* a client calls FileService.SaveBatchPath: ValidateUser selects the root
CallSaveBatchPath(p, userID, path, fileHeaders) ==
    /\ pc[p] = "idle"
    /\ ValidateUser(p, [NoCall EXCEPT !.op = "SaveBatchPath", !.user = userID,
                                      !.path = path, !.fileHeaders = fileHeaders])
    /\ UNCHANGED <<directories, paths, files, fsDirs, fsFiles, tx,
                   cleanups, logged, nextID, faults>>

\* a client calls FileService.InfoPath: ValidateUser selects the root
CallInfoPath(p, userID, path) ==
    /\ pc[p] = "idle"
    /\ ValidateUser(p, [NoCall EXCEPT !.op = "InfoPath", !.user = userID,
                                      !.path = path])
    /\ UNCHANGED <<directories, paths, files, fsDirs, fsFiles, tx,
                   cleanups, logged, nextID, faults>>

\* a client calls FileService.Info: IO.ReadFileInfo selects the row
CallInfo(p, userID, fileID) ==
    /\ pc[p] = "idle"
    /\ SelectFile(p, [NoCall EXCEPT !.op = "Info", !.user = userID], fileID, EmptyID)
    /\ UNCHANGED <<directories, paths, files, fsDirs, fsFiles, tx,
                   cleanups, logged, nextID, faults>>

----------------------------------------------------------------------------
(* Reads: one call to the database or the filesystem in each step *)

\* one round of the loop of FindDir: the next segment is selected below the
\* directory reached so far, among the rows committed at this moment
FindDirSelect(p) ==
    /\ pc[p] = "FindDir"
    /\ LET r == rd[p]
           res == FindDirLoop(directories, call[p].user, r.segs, r.i, r.id)
       IN  IF res.err # NoErr THEN NotFound(p, call[p], res)
           ELSE IF r.i = Len(r.segs) THEN Found(p, call[p], res.id, r, root[p])
           ELSE Goto(p, "FindDir", call[p], NoWrite,
                     [r EXCEPT !.i = r.i + 1, !.id = res.id], root[p], <<>>)
    /\ UNCHANGED <<directories, paths, files, fsDirs, fsFiles, tx,
                   cleanups, logged, nextID, faults>>

\* PathMapper.FindFile after FindDir: Query.SelectFileByUserDirName reads the
\* file of the name in the directory; FindFile returns its id, and InfoPath
\* goes on to FileService.Info with it
FindFileSelect(p) ==
    /\ pc[p] = "FindFile"
    /\ LET c == call[p]
           res == SelectFileByUserDirName(files, c.user, rd[p].id, rd[p].file)
           err == IF res.err # NoErr THEN res.err
                  ELSE IF res.rows = {} THEN "NotFound" ELSE NoErr
       IN  IF err # NoErr
           THEN NotFound(p, c, [err |-> err, id |-> EmptyID, missing |-> <<>>])
           ELSE IF c.op = "FindFile"
           THEN Return(p, FindFileRet(c, NoErr, (CHOOSE r \in res.rows : TRUE).id))
           ELSE Goto(p, "ReadFileInfo", c, NoWrite,
                     [NoRead EXCEPT !.info.ID = (CHOOSE r \in res.rows : TRUE).id],
                     root[p], <<>>)
    /\ UNCHANGED <<directories, paths, files, fsDirs, fsFiles, tx,
                   cleanups, logged, nextID, faults>>

\* the FileService.Info of InfoPath: IO.ReadFileInfo selects the row of the
\* id FindFile returned
ReadFileInfoSelect(p) ==
    /\ pc[p] = "ReadFileInfo"
    /\ SelectFile(p, call[p], rd[p].info.ID, root[p])
    /\ UNCHANGED <<directories, paths, files, fsDirs, fsFiles, tx,
                   cleanups, logged, nextID, faults>>

\* IO.ReadFileInfo: PathMapper.GetFile reads the names from the root down
\* to the directory of the row
ReadFileInfoGetFile(p) ==
    /\ pc[p] = "ReadFileInfo.GetFile"
    /\ Goto(p, "ReadFileInfo.GetFileFS", call[p], NoWrite,
            [rd[p] EXCEPT !.info.Path =
                GetFile(directories, paths, rd[p].info.DirectoryID, rd[p].info.Name)],
            root[p], <<>>)
    /\ UNCHANGED <<directories, paths, files, fsDirs, fsFiles, tx,
                   cleanups, logged, nextID, faults>>

\* IO.ReadFileInfo: PathMapper.GetFileFS reads the ids from the root down to
\* the directory of the row
ReadFileInfoGetFileFS(p) ==
    /\ pc[p] = "ReadFileInfo.GetFileFS"
    /\ Goto(p, "Stat", call[p], NoWrite,
            [rd[p] EXCEPT !.fsPath =
                GetFileFS(directories, paths, rd[p].info.DirectoryID, rd[p].info.ID)],
            root[p], <<>>)
    /\ UNCHANGED <<directories, paths, files, fsDirs, fsFiles, tx,
                   cleanups, logged, nextID, faults>>

\* IO.ReadFileInfo: os.Stat reads the size of the physical file, and
\* FileService.Info returns the FileInfo; the error of Stat for a file that
\* is not there is handed back as it is
Stat(p) ==
    /\ pc[p] = "Stat"
    /\ LET stat == {f \in fsFiles : f.path = rd[p].fsPath} IN
       Return(p, [InfoRet(call[p], "Info",
                          IF stat = {} THEN NoFileInfo("ErrStat")
                          ELSE [rd[p].info EXCEPT
                                   !.Size = (CHOOSE f \in stat : TRUE).size])
                     EXCEPT !.arg = rd[p].info.ID])
    /\ UNCHANGED <<directories, paths, files, fsDirs, fsFiles, tx,
                   cleanups, logged, nextID, faults>>

\* the getDirID of SaveBatch for a directory id that is not empty:
\* Query.SelectDirectoryByIDUser reads the row of the user's directory;
\* sql.ErrNoRows is wrapped as a not-found error, any other error is handed
\* back as it is, and with the row the first file is written
GetDirID(p) ==
    /\ pc[p] = "getDirID"
    /\ LET c == call[p]
           res == SelectDirectoryByIDUser(directories, c.directoryID, c.user)
       IN  IF res.err # NoErr \/ res.rows = {}
           THEN Return(p, [DirRet(c, NoWrite,
                                  IF res.err # NoErr THEN res.err ELSE "NotFound",
                                  "getDirID", EmptyID, EmptyStr)
                              EXCEPT !.parent = c.directoryID])
           ELSE saveBatchLoop(p, c, root[p], <<>>)
    /\ UNCHANGED <<directories, paths, files, fsDirs, fsFiles, tx,
                   cleanups, logged, nextID, faults>>

----------------------------------------------------------------------------
(* Writes: one call to the database or the filesystem in each step *)

\* Store.rollback when a failed rollback hands back its own error and only
\* the text of the original one
rollbackHidesOriginal(err, rbOK) ==
    IF rbOK THEN [err |-> err, rbErr |-> FALSE]
    ELSE [err |-> "ErrRollback", rbErr |-> TRUE]

\* Store.rollback: tx.Rollback is called and the error handed back is the
\* original one; when the rollback itself fails the original error is wrapped
\* with %w (errors.Is still matches it) and the text of the rollback error is
\* appended with %v (rbErr)
rollback(err, rbOK) == [err |-> err, rbErr |-> ~rbOK]

\* DirService.write returns the error e of Store.Tx to its caller:
\* ValidateUser (which wraps a failure and otherwise hands the new root on
\* to what follows it), DirService.new or DirService.NewUser
DirWriteReturnsTx(p, e) ==
    IF w[p].by = "ValidateUser"
    THEN IF e.err # NoErr
         THEN Return(p, [DirRet(call[p], w[p], e.err, "ValidateUser", EmptyID, EmptyStr)
                            EXCEPT !.rbErr = e.rbErr])
         ELSE IF call[p].op = "ValidateUser"
         THEN Return(p, DirRet(call[p], w[p], NoErr, "created", w[p].id, w[p].userPath))
         ELSE Validated(p, call[p], w[p].id)
    ELSE Return(p, [DirRet(call[p], w[p], e.err, "write",
                           IF e.err = NoErr THEN w[p].id ELSE EmptyID,
                           IF e.err = NoErr THEN w[p].userPath ELSE EmptyStr)
                       EXCEPT !.rbErr = e.rbErr])

\* DirService.write returns err when no rollback failed
DirWriteReturns(p, err) == DirWriteReturnsTx(p, [err |-> err, rbErr |-> FALSE])

\* FileService.saveBatch when the first failed write ends the batch
FileWriteReturnsAborts(p, err) ==
    LET rs == Append(results[p], BatchSave(w[p], err)) IN
    IF Len(rs) = Len(call[p].fileHeaders) \/ err # NoErr
    THEN Return(p, [NoRet EXCEPT !.op = call[p].op, !.user = call[p].user,
                                 !.stage = "saveBatch",
                                 !.parent = call[p].directoryID, !.results = rs])
    ELSE BeginFileWrite(p, call[p], Len(rs) + 1, root[p], rs)

\* FileService.write returns err to FileService.saveBatch, which appends the
\* per-item result and begins the write of the next header or returns the
\* results
FileWriteReturns(p, err) ==
    saveBatchLoop(p, call[p], root[p], Append(results[p], BatchSave(w[p], err)))

\* DirService.write / FileService.write return err
WriteReturns(p, err) ==
    IF w[p].kind = "dir" THEN DirWriteReturns(p, err) ELSE FileWriteReturns(p, err)

\* DirService.write / FileService.write return the error e of Store.Tx; the
\* result of a file keeps the error as errors.Is matches it
WriteReturnsTx(p, e) ==
    IF w[p].kind = "dir" THEN DirWriteReturnsTx(p, e) ELSE FileWriteReturns(p, e.err)

\* the transaction function of caller p ends with err: Store.Tx goes on to
\* Store.rollback
TxFuncFails(p, err) ==
    /\ pc' = [pc EXCEPT ![p] = "Rollback"]
    /\ w' = [w EXCEPT ![p].err = err]
    /\ UNCHANGED <<call, rd, root, results, ret>>

\* Store.Tx: db.Tx begins the transaction, and the transaction function
\* draws the uuid of the new directory or file
Begin(p) ==
    /\ pc[p] = "Begin"
    /\ nextID < MaxIDs
    /\ nextID' = nextID + 1
    /\ w' = [w EXCEPT ![p].id = UUID(nextID + 1)]
    /\ pc' = [pc EXCEPT ![p] = IF w[p].kind = "dir" THEN "InsertDirectory" ELSE "Open"]
    /\ UNCHANGED <<directories, paths, files, fsDirs, fsFiles, tx, call, rd, root,
                   results, ret, cleanups, logged, faults>>

\* Store.Tx when db.Tx fails: the error is returned as it is, with no
\* transaction to roll back, and the transaction function does not run
BeginFails(p) ==
    /\ pc[p] = "Begin"
    /\ faults < MaxFaults
    /\ faults' = faults + 1
    /\ WriteReturns(p, "ErrBeginTx")
    /\ UNCHANGED <<directories, paths, files, fsDirs, fsFiles, tx,
                   cleanups, logged, nextID>>

\* the row IO.NewDir inserts for the write of caller p
NewDirRow(p) ==
    [id |-> w[p].id, user_id |-> w[p].user, name |-> w[p].name,
     parent_id |-> w[p].parent]

\* IO.NewDir when the directory is made below its parent's path before the
\* error of the insert is looked at
NewDirMkdirFirst(p) ==
    /\ pc[p] = "InsertDirectory"
    /\ LET r == NewDirRow(p)
           err == InsertDirectory(DirsOf(p), r)
       IN  /\ ~InsertDirectoryWaits(p, r)
           /\ fsDirs' = fsDirs \cup
                 {<<FSRoot>> \o SelectDirectoryFSPath(DirsOf(p), PathsOf(p), r.parent_id)
                            \o <<r.id>>}
           /\ IF err # NoErr
              THEN TxFuncFails(p, err) /\ UNCHANGED tx
              ELSE /\ tx' = [tx EXCEPT ![p].dirs = @ \cup {r}]
                   /\ pc' = [pc EXCEPT ![p] = "InsertSelfPath"]
                   /\ UNCHANGED <<call, w, rd, root, results, ret>>
    /\ UNCHANGED <<directories, paths, files, fsFiles,
                   cleanups, logged, nextID, faults>>

\* IO.NewDir: Query.InsertDirectory stages the directory row; an insert the
\* database rejects ends the transaction function with its error
NewDirInsertDirectory(p) ==
    /\ pc[p] = "InsertDirectory"
    /\ LET r == NewDirRow(p)
           err == InsertDirectory(DirsOf(p), r)
       IN  /\ ~InsertDirectoryWaits(p, r)
           /\ IF err # NoErr
              THEN TxFuncFails(p, err) /\ UNCHANGED tx
              ELSE /\ tx' = [tx EXCEPT ![p].dirs = @ \cup {r}]
                   /\ pc' = [pc EXCEPT ![p] = "InsertSelfPath"]
                   /\ UNCHANGED <<call, w, rd, root, results, ret>>
    /\ UNCHANGED <<directories, paths, files, fsDirs, fsFiles,
                   cleanups, logged, nextID, faults>>

\* IO.NewDir: Query.InsertSelfPath stages the depth-0 path row; the paths of
\* the parent follow when the parent id is valid (not the empty string)
NewDirInsertSelfPath(p) ==
    /\ pc[p] = "InsertSelfPath"
    /\ tx' = [tx EXCEPT ![p].paths = @ \cup InsertSelfPath(w[p].id)]
    /\ pc' = [pc EXCEPT ![p] = IF w[p].parent # EmptyID THEN "InsertParentPaths"
                               ELSE "GetDirFS"]
    /\ UNCHANGED <<directories, paths, files, fsDirs, fsFiles, call, w, rd, root,
                   results, ret, cleanups, logged, nextID, faults>>

\* IO.NewDir: Query.InsertParentPaths stages the paths of the parent,
\* re-pointed at the new directory
NewDirInsertParentPaths(p) ==
    /\ pc[p] = "InsertParentPaths"
    /\ tx' = [tx EXCEPT ![p].paths =
                 @ \cup InsertParentPaths(PathsOf(p), w[p].parent, w[p].id)]
    /\ pc' = [pc EXCEPT ![p] = "GetDirFS"]
    /\ UNCHANGED <<directories, paths, files, fsDirs, fsFiles, call, w, rd, root,
                   results, ret, cleanups, logged, nextID, faults>>

\* IO.NewDir: PathMapper.GetDirFS reads the filesystem path of the new
\* directory inside the transaction
NewDirGetDirFS(p) ==
    /\ pc[p] = "GetDirFS"
    /\ w' = [w EXCEPT ![p].fsPath = GetDirFS(DirsOf(p), PathsOf(p), w[p].id)]
    /\ pc' = [pc EXCEPT ![p] = "GetDir"]
    /\ UNCHANGED <<directories, paths, files, fsDirs, fsFiles, tx, call, rd, root,
                   results, ret, cleanups, logged, nextID, faults>>

\* IO.NewDir when the user path is read for the parent of the directory
NewDirPathOfParent(p) ==
    /\ pc[p] = "GetDir"
    /\ w' = [w EXCEPT ![p].userPath = GetDir(DirsOf(p), PathsOf(p), w[p].parent)]
    /\ pc' = [pc EXCEPT ![p] = "Mkdir"]
    /\ UNCHANGED <<directories, paths, files, fsDirs, fsFiles, tx, call, rd, root,
                   results, ret, cleanups, logged, nextID, faults>>

\* IO.NewDir: PathMapper.GetDir reads the user path of the new directory
\* inside the transaction
NewDirGetDir(p) ==
    /\ pc[p] = "GetDir"
    /\ w' = [w EXCEPT ![p].userPath = GetDir(DirsOf(p), PathsOf(p), w[p].id)]
    /\ pc' = [pc EXCEPT ![p] = "Mkdir"]
    /\ UNCHANGED <<directories, paths, files, fsDirs, fsFiles, tx, call, rd, root,
                   results, ret, cleanups, logged, nextID, faults>>

\* the filesystem call when the staged rows are committed before it
MkdirAfterCommit(p) ==
    /\ pc[p] = "Mkdir"
    /\ MkdirOK(w[p].fsPath)
    /\ directories' = directories \cup tx[p].dirs
    /\ paths' = paths \cup tx[p].paths
    /\ tx' = [tx EXCEPT ![p] = NoTx]
    /\ fsDirs' = fsDirs \cup {w[p].fsPath}
    /\ w' = [w EXCEPT ![p].out = w[p].fsPath]
    /\ pc' = [pc EXCEPT ![p] = "Commit"]
    /\ UNCHANGED <<files, fsFiles, call, rd, root, results,
                   ret, cleanups, logged, nextID, faults>>

\* IO.NewDir, the filesystem call: os.Mkdir creates the directory, and
\* the transaction function returns the DirIO
Mkdir(p) ==
    /\ pc[p] = "Mkdir"
    /\ MkdirOK(w[p].fsPath)
    /\ fsDirs' = fsDirs \cup {w[p].fsPath}
    /\ w' = [w EXCEPT ![p].out = w[p].fsPath]
    /\ pc' = [pc EXCEPT ![p] = "Commit"]
    /\ UNCHANGED <<directories, paths, files, fsFiles, tx, call, rd, root, results,
                   ret, cleanups, logged, nextID, faults>>

\* the failed os.Mkdir when the staged rows are committed all the same
MkdirFailsCommits(p) ==
    /\ pc[p] = "Mkdir"
    /\ IF MkdirOK(w[p].fsPath)
       THEN faults < MaxFaults /\ faults' = faults + 1
       ELSE UNCHANGED faults
    /\ directories' = directories \cup tx[p].dirs
    /\ paths' = paths \cup tx[p].paths
    /\ TxFuncFails(p, "ErrMkdir")
    /\ UNCHANGED <<files, fsDirs, fsFiles, tx, cleanups, logged, nextID>>

\* the failed os.Mkdir when the delete of the directory is started
MkdirFailsSchedulesRemove(p) ==
    /\ pc[p] = "Mkdir"
    /\ IF MkdirOK(w[p].fsPath)
       THEN faults < MaxFaults /\ faults' = faults + 1
       ELSE UNCHANGED faults
    /\ cleanups' = cleanups \cup {[kind |-> "dir", path |-> w[p].fsPath, id |-> w[p].id]}
    /\ TxFuncFails(p, "ErrMkdir")
    /\ UNCHANGED <<directories, paths, files, fsDirs, fsFiles, tx, logged, nextID>>

\* os.Mkdir fails (the path cannot be created, or an I/O error): IO.NewDir
\* returns no DirIO, and the transaction function ends with the error
MkdirFails(p) ==
    /\ pc[p] = "Mkdir"
    /\ IF MkdirOK(w[p].fsPath)
       THEN faults < MaxFaults /\ faults' = faults + 1
       ELSE UNCHANGED faults
    /\ TxFuncFails(p, "ErrMkdir")
    /\ UNCHANGED <<directories, paths, files, fsDirs, fsFiles, tx,
                   cleanups, logged, nextID>>

\* IO.NewFile: Header.Open opens the upload
NewFileOpen(p) ==
    /\ pc[p] = "Open"
    /\ pc' = [pc EXCEPT ![p] = "InsertFile"]
    /\ UNCHANGED <<directories, paths, files, fsDirs, fsFiles, tx, call, w, rd, root,
                   results, ret, cleanups, logged, nextID, faults>>

\* IO.NewFile when Header.Open fails: nothing was inserted or created
OpenFails(p) ==
    /\ pc[p] = "Open"
    /\ faults < MaxFaults
    /\ faults' = faults + 1
    /\ TxFuncFails(p, "ErrOpen")
    /\ UNCHANGED <<directories, paths, files, fsDirs, fsFiles, tx,
                   cleanups, logged, nextID>>

\* the row IO.NewFile inserts for the write of caller p
NewFileRow(p) ==
    [id |-> w[p].id, user_id |-> w[p].user, directory_id |-> w[p].parent,
     name |-> w[p].name]

\* IO.NewFile when the error of the insert is not looked at
NewFileIgnoresInsert(p) ==
    /\ pc[p] = "InsertFile"
    /\ ~InsertFileWaits(p, NewFileRow(p))
    /\ tx' = [tx EXCEPT ![p].files = @ \cup {NewFileRow(p)}]
    /\ pc' = [pc EXCEPT ![p] = "GetFile"]
    /\ UNCHANGED <<directories, paths, files, fsDirs, fsFiles, call, w, rd, root,
                   results, ret, cleanups, logged, nextID, faults>>

\* IO.NewFile: Query.InsertFile stages the file row; an insert the database
\* rejects ends the transaction function with its error
NewFileInsertFile(p) ==
    /\ pc[p] = "InsertFile"
    /\ LET r == NewFileRow(p)
           err == InsertFile(DirsOf(p), FilesOf(p), r)
       IN  /\ ~InsertFileWaits(p, r)
           /\ IF err # NoErr
              THEN TxFuncFails(p, err) /\ UNCHANGED tx
              ELSE /\ tx' = [tx EXCEPT ![p].files = @ \cup {r}]
                   /\ pc' = [pc EXCEPT ![p] = "GetFile"]
                   /\ UNCHANGED <<call, w, rd, root, results, ret>>
    /\ UNCHANGED <<directories, paths, files, fsDirs, fsFiles,
                   cleanups, logged, nextID, faults>>

\* IO.NewFile: PathMapper.GetFile reads the user path of the file inside
\* the transaction
NewFileGetFile(p) ==
    /\ pc[p] = "GetFile"
    /\ w' = [w EXCEPT ![p].userPath =
                GetFile(DirsOf(p), PathsOf(p), w[p].parent, w[p].name)]
    /\ pc' = [pc EXCEPT ![p] = "GetFileFS"]
    /\ UNCHANGED <<directories, paths, files, fsDirs, fsFiles, tx, call, rd, root,
                   results, ret, cleanups, logged, nextID, faults>>

\* IO.NewFile: PathMapper.GetFileFS reads the filesystem path of the file
\* inside the transaction
NewFileGetFileFS(p) ==
    /\ pc[p] = "GetFileFS"
    /\ w' = [w EXCEPT ![p].fsPath =
                GetFileFS(DirsOf(p), PathsOf(p), w[p].parent, w[p].id)]
    /\ pc' = [pc EXCEPT ![p] = "Create"]
    /\ UNCHANGED <<directories, paths, files, fsDirs, fsFiles, tx, call, rd, root,
                   results, ret, cleanups, logged, nextID, faults>>

\* os.OpenFile with O_CREATE|O_TRUNC succeeds when the directory exists
CreateOK(path) ==
    /\ Len(path) > 1
    /\ SubSeq(path, 1, Len(path) - 1) \in fsDirs
    /\ path \notin fsDirs

\* IO.NewFile: OSFileSystem.Create makes the empty physical file
Create(p) ==
    /\ pc[p] = "Create"
    /\ CreateOK(w[p].fsPath)
    /\ fsFiles' = {f \in fsFiles : f.path # w[p].fsPath} \cup
                  {[path |-> w[p].fsPath, size |-> 0]}
    /\ pc' = [pc EXCEPT ![p] = "Copy"]
    /\ UNCHANGED <<directories, paths, files, fsDirs, tx, call, w, rd, root, results,
                   ret, cleanups, logged, nextID, faults>>

\* OSFileSystem.Create fails: IO.NewFile returns no FileInfo, and the
\* transaction function ends with the error
CreateFails(p) ==
    /\ pc[p] = "Create"
    /\ IF CreateOK(w[p].fsPath)
       THEN faults < MaxFaults /\ faults' = faults + 1
       ELSE UNCHANGED faults
    /\ TxFuncFails(p, "ErrCreate")
    /\ UNCHANGED <<directories, paths, files, fsDirs, fsFiles, tx,
                   cleanups, logged, nextID>>

\* OSFileSystem.Copy when a short write goes unnoticed
CopyShort(p) ==
    /\ pc[p] = "Copy"
    /\ fsFiles' = {f \in fsFiles : f.path # w[p].fsPath} \cup
                  {[path |-> w[p].fsPath, size |-> w[p].size - 1]}
    /\ pc' = [pc EXCEPT ![p] = "Close"]
    /\ UNCHANGED <<directories, paths, files, fsDirs, tx, call, w, rd, root, results,
                   ret, cleanups, logged, nextID, faults>>

\* IO.NewFile: OSFileSystem.Copy writes all the bytes of the upload
Copy(p) ==
    /\ pc[p] = "Copy"
    /\ fsFiles' = {f \in fsFiles : f.path # w[p].fsPath} \cup
                  {[path |-> w[p].fsPath, size |-> w[p].size]}
    /\ pc' = [pc EXCEPT ![p] = "Close"]
    /\ UNCHANGED <<directories, paths, files, fsDirs, tx, call, w, rd, root, results,
                   ret, cleanups, logged, nextID, faults>>

\* IO.NewFile: dst.Close closes the physical file (its error is not looked
\* at), and the transaction function returns the FileInfo
NewFileClose(p) ==
    /\ pc[p] = "Close"
    /\ w' = [w EXCEPT ![p].out = w[p].fsPath]
    /\ pc' = [pc EXCEPT ![p] = "Commit"]
    /\ UNCHANGED <<directories, paths, files, fsDirs, fsFiles, tx, call, rd, root,
                   results, ret, cleanups, logged, nextID, faults>>

\* OSFileSystem.Copy fails after n bytes with ErrCopy: IO.NewFile returns no
\* FileInfo, and the transaction function ends with the error
CopyFails(p, n) ==
    /\ pc[p] = "Copy"
    /\ faults < MaxFaults
    /\ faults' = faults + 1
    /\ n < w[p].size
    /\ fsFiles' = {f \in fsFiles : f.path # w[p].fsPath} \cup
                  {[path |-> w[p].fsPath, size |-> n]}
    /\ TxFuncFails(p, "ErrCopy")
    /\ UNCHANGED <<directories, paths, files, fsDirs, tx, cleanups, logged, nextID>>

\* Store.Tx: tx.Commit when InsertParentPaths had moved the path rows of
\* the parent to the new directory and not copied them
CommitMovesParentPaths(p) ==
    /\ pc[p] = "Commit"
    /\ directories' = directories \cup tx[p].dirs
    /\ paths' = {e \in paths : \A r \in tx[p].dirs :
                     e.child_id # r.parent_id \/ e.parent_id = e.child_id}
                 \cup tx[p].paths
    /\ files' = files \cup tx[p].files
    /\ tx' = [tx EXCEPT ![p] = NoTx]
    /\ WriteReturns(p, NoErr)
    /\ UNCHANGED <<fsDirs, fsFiles, cleanups, logged, nextID, faults>>

\* Store.Tx: tx.Commit succeeds and the staged rows become visible; the
\* write returns what it made
Commit(p) ==
    /\ pc[p] = "Commit"
    /\ directories' = directories \cup tx[p].dirs
    /\ paths' = paths \cup tx[p].paths
    /\ files' = files \cup tx[p].files
    /\ tx' = [tx EXCEPT ![p] = NoTx]
    /\ WriteReturns(p, NoErr)
    /\ UNCHANGED <<fsDirs, fsFiles, cleanups, logged, nextID, faults>>

\* the failed commit when Store.Tx drops the error of tx.Commit
CommitFailsSwallowed(p) ==
    /\ pc[p] = "Commit"
    /\ faults < MaxFaults
    /\ faults' = faults + 1
    /\ tx' = [tx EXCEPT ![p] = NoTx]
    /\ WriteReturns(p, NoErr)
    /\ UNCHANGED <<directories, paths, files, fsDirs, fsFiles, cleanups, logged, nextID>>

\* Store.Tx: tx.Commit fails; the error is wrapped as ErrCommitTx and Store.Tx
\* goes on to Store.rollback
CommitFails(p) ==
    /\ pc[p] = "Commit"
    /\ faults < MaxFaults
    /\ faults' = faults + 1
    /\ TxFuncFails(p, "ErrCommitTx")
    /\ UNCHANGED <<directories, paths, files, fsDirs, fsFiles, tx,
                   cleanups, logged, nextID>>

\* the write when it starts no cleanup for any error
CleanupNever(wr) == {}

\* the detached cleanup DirService.write / FileService.write starts for the
\* error of Store.Tx: `go s.Remove(ctx, dir.FSPath)` for ErrCommitTx,
\* `go s.removeFS(file.FSPath)` for ErrCommitTx and ErrCopy, with the
\* variable (dir / file) as the transaction function left it
Cleanup(wr) ==
    IF \/ wr.kind = "dir" /\ wr.err = "ErrCommitTx"
       \/ wr.kind = "file" /\ wr.err \in {"ErrCommitTx", "ErrCopy"}
    THEN {[kind |-> wr.kind, path |-> wr.out, id |-> wr.id]}
    ELSE {}

\* Store.rollback: tx.Rollback ends the transaction, whose staged rows are
\* dropped (rbOK: it returns no error; after a tx.Commit that failed in the
\* driver the sql.Tx is done and it returns sql.ErrTxDone, after one that
\* failed on the context it may return nil); Store.Tx returns the error,
\* and the write starts its cleanup and returns
Rollback(p, rbOK) ==
    /\ pc[p] = "Rollback"
    /\ tx' = [tx EXCEPT ![p] = NoTx]
    /\ cleanups' = cleanups \cup Cleanup(w[p])
    /\ WriteReturnsTx(p, rollback(w[p].err, rbOK))
    /\ UNCHANGED <<directories, paths, files, fsDirs, fsFiles, logged, nextID, faults>>

\* DirService.Remove when it deletes the directory that holds the path
RemoveParentDir(c) ==
    /\ c \in cleanups
    /\ c.kind = "dir"
    /\ cleanups' = cleanups \ {c}
    /\ fsDirs' = {d \in fsDirs : ~Under(d, SubSeq(c.path, 1, Len(c.path) - 1))}
    /\ fsFiles' = {f \in fsFiles : ~Under(f.path, SubSeq(c.path, 1, Len(c.path) - 1))}
    /\ UNCHANGED <<directories, paths, files, tx, pc, call, w, rd, root, results,
                   ret, logged, nextID, faults>>

\* DirService.Remove when it deletes the rows of the directory as well
RemoveWithRows(c) ==
    /\ c \in cleanups
    /\ c.kind = "dir"
    /\ cleanups' = cleanups \ {c}
    /\ fsDirs' = {d \in fsDirs : c.path = NoPath \/ ~Under(d, c.path)}
    /\ fsFiles' = {f \in fsFiles : c.path = NoPath \/ ~Under(f.path, c.path)}
    /\ directories' = {r \in directories : r.parent_id # EmptyID}
    /\ UNCHANGED <<paths, files, tx, pc, call, w, rd, root, results,
                   ret, logged, nextID, faults>>

\* DirService.Remove run by the detached goroutine: os.RemoveAll deletes the
\* path and everything below it (and does nothing for the empty path)
Remove(c) ==
    /\ c \in cleanups
    /\ c.kind = "dir"
    /\ cleanups' = cleanups \ {c}
    /\ fsDirs' = {d \in fsDirs : c.path = NoPath \/ ~Under(d, c.path)}
    /\ fsFiles' = {f \in fsFiles : c.path = NoPath \/ ~Under(f.path, c.path)}
    /\ UNCHANGED <<directories, paths, files, tx, pc, call, w, rd, root, results,
                   ret, logged, nextID, faults>>

\* DirService.Remove when os.RemoveAll fails: the path is logged, nothing
\* is returned to anyone
RemoveFails(c) ==
    /\ c \in cleanups
    /\ c.kind = "dir"
    /\ cleanups' = cleanups \ {c}
    /\ logged' = logged \cup {c.path}
    /\ UNCHANGED <<directories, paths, files, fsDirs, fsFiles, tx, pc, call, w, rd,
                   root, results, ret, nextID, faults>>

\* what lies at or below path on the filesystem
Subtree(path) ==
    {d \in fsDirs : Under(d, path)} \cup {f.path : f \in {g \in fsFiles : Under(g.path, path)}}

\* os.RemoveAll: what it can leave of the tree at path.  It removes
\* everything it can: nothing is left when it succeeds, and what is left
\* when it fails is left together with the directories above it, down from
\* path.  The empty path names nothing.
RemoveAllLeaves(path) ==
    IF path = NoPath THEN {{}}
    ELSE {K \in SUBSET Subtree(path) :
             \A x \in K : \A n \in Len(path)..Len(x) : SubSeq(x, 1, n) \in K}

\* a client calls DirService.Remove with a path: os.RemoveAll leaves K of
\* the tree, a failure (something is left) is logged, and the method
\* returns no value
CallRemove(p, path, K) ==
    /\ pc[p] = "idle"
    /\ K \in RemoveAllLeaves(path)
    /\ fsDirs' = {d \in fsDirs : path = NoPath \/ ~Under(d, path) \/ d \in K}
    /\ fsFiles' = {f \in fsFiles : path = NoPath \/ ~Under(f.path, path) \/ f.path \in K}
    /\ logged' = IF K # {} THEN logged \cup {path} ELSE logged
    /\ Return(p, [NoRet EXCEPT !.op = "Remove", !.arg = path])
    /\ UNCHANGED <<directories, paths, files, tx, cleanups, nextID, faults>>

\* os.Remove succeeds on an existing file
RemoveOK(path) == \E f \in fsFiles : f.path = path

\* FileService.removeFS run by the detached goroutine: os.Remove deletes
\* the file
RemoveFS(c) ==
    /\ c \in cleanups
    /\ c.kind = "file"
    /\ RemoveOK(c.path)
    /\ cleanups' = cleanups \ {c}
    /\ fsFiles' = {f \in fsFiles : f.path # c.path}
    /\ UNCHANGED <<directories, paths, files, fsDirs, tx, pc, call, w, rd, root,
                   results, ret, logged, nextID, faults>>

\* FileService.removeFS when os.Remove fails (no such file, or an I/O
\* error): the path is logged
RemoveFSFails(c) ==
    /\ c \in cleanups
    /\ c.kind = "file"
    /\ cleanups' = cleanups \ {c}
    /\ logged' = logged \cup {c.path}
    /\ UNCHANGED <<directories, paths, files, fsDirs, fsFiles, tx, pc, call, w, rd,
                   root, results, ret, nextID, faults>>
\* the uploads of the model
Headers == {[Filename |-> <<"a">>, Size |-> 1], [Filename |-> <<"b">>, Size |-> 2]}
\* the batches a client may upload: the empty batch, and up to MaxBatch
\* headers, the first named "a"
Batches ==
    {b \in UNION {[1..n -> Headers] : n \in 0..MaxBatch} :
        b # <<>> => b[1].Filename = <<"a">>}

\* the arguments a client may pass: names with the ids of existing
\* directories or the empty id, and one call each with an empty name, a
\* dangling id and a malformed id
DirIDs == {EmptyID} \cup {d.id : d \in directories}
NewArgs ==
    (Names \X DirIDs)
    \cup {<<EmptyStr, EmptyID>>, <<<<"a">>, DanglingID>>, <<<<"a">>, MalformedID>>}
NewPathArgs ==
    (Names \X {<<"/">>, <<"a">>})
    \cup {<<EmptyStr, <<"/">>>>, <<<<"b">>, <<"a", "/", "b">>>>}
SaveBatchArgs ==
    (DirIDs \X Batches) \cup ({DanglingID, MalformedID} \X {<<CHOOSE h \in Headers : TRUE>>})

\* the paths and batches a client may pass to SaveBatchPath
SaveBatchPathArgs == {<<"/">>, <<"a">>} \X Batches

\* the names and paths a client may pass to NewPath and FindDir when paths
\* are resolved: a plain name, a name that is the element ".", a name with a
\* separator in it; the root, a directory under it, and paths with a missing
\* first or last segment
PathNames == {<<"a">>, <<".">>, <<"a", "/", "a">>}
PathPaths == {<<"/">>, <<"a">>}
MissingPaths == {<<"b", "/", "a">>, <<"a", "/", "b">>}
FindDirArgs ==
    {q \o <<"/">> \o n : q \in PathPaths, n \in PathNames} \cup MissingPaths

\* the batches a client may save by path when every operation is run
CoreBatches == {b \in Batches : \A i \in 1..Len(b) : b[i].Filename = <<"a">>}

\* the paths a client may look up when every operation is run
CorePaths == {<<"a">>, <<"a", "/", "a">>}

\* the paths a client may ask the FileInfo of, and the file ids
InfoPathArgs == {<<"a">>, <<"/", "a">>, <<"a", "/", "a">>, <<"a", "/">>, <<"b">>}
InfoArgs == {f.id : f \in files} \cup {DanglingID, MalformedID}
\* the paths a client may pass to FindFile: those, the empty path, the root,
\* and a path that ends with a separator after a directory that is missing
FindFileArgs == InfoPathArgs \cup {<<>>, <<"/">>, <<"b", "/">>}

\* the arguments of the concurrent callers: those with the one name "a", so
\* that concurrent creations in one parent always contest a name, and with
\* the batches for existing directories
ConcNewArgs == {a \in NewArgs : a[1] = <<"a">>}
ConcNewPathArgs == {a \in NewPathArgs : a[1] = <<"a">> /\ a[2] = <<"/">>}
ConcSaveBatchArgs ==
    {a \in SaveBatchArgs :
        a[1] \in DirIDs /\ \A i \in 1..Len(a[2]) : a[2][i].Filename = <<"a">>}

\* Two callers run calls for one user concurrently, with failures of
\* commit and of every filesystem call, and with the detached cleanups.
Next ==
    \/ \E p \in Procs : CallValidateUser(p, "u1")
    \/ \E p \in Procs : CallNewUser(p, "u1")
    \/ \E p \in Procs, a \in ConcNewArgs : CallNew(p, "u1", a[1], a[2])
    \/ \E p \in Procs, a \in ConcNewPathArgs : CallNewPath(p, "u1", a[1], a[2])
    \/ \E p \in Procs, a \in ConcSaveBatchArgs : CallSaveBatch(p, "u1", a[1], a[2])
    \/ \E p \in Procs : CallInfoPath(p, "u1", <<"a">>)
    \/ \E p \in Procs : Begin(p)
    \/ \E p \in Procs : NewDirInsertDirectory(p)
    \/ \E p \in Procs : NewDirInsertSelfPath(p)
    \/ \E p \in Procs : NewDirInsertParentPaths(p)
    \/ \E p \in Procs : NewDirGetDirFS(p)
    \/ \E p \in Procs : NewDirGetDir(p)
    \/ \E p \in Procs : Mkdir(p)
    \/ \E p \in Procs : MkdirFails(p)
    \/ \E p \in Procs : GetDirID(p)
    \/ \E p \in Procs : NewFileOpen(p)
    \/ \E p \in Procs : NewFileInsertFile(p)
    \/ \E p \in Procs : NewFileGetFile(p)
    \/ \E p \in Procs : NewFileGetFileFS(p)
    \/ \E p \in Procs : Create(p)
    \/ \E p \in Procs : Copy(p)
    \/ \E p \in Procs : NewFileClose(p)
    \/ \E p \in Procs : OpenFails(p)
    \/ \E p \in Procs : CreateFails(p)
    \/ \E p \in Procs, n \in 0..1 : CopyFails(p, n)
    \/ \E p \in Procs : Commit(p)
    \/ \E p \in Procs : CommitFails(p)
    \/ \E p \in Procs, rbOK \in BOOLEAN : Rollback(p, rbOK)
    \/ \E p \in Procs : FindFileSelect(p)
    \/ \E p \in Procs : ReadFileInfoSelect(p)
    \/ \E p \in Procs : ReadFileInfoGetFile(p)
    \/ \E p \in Procs : ReadFileInfoGetFileFS(p)
    \/ \E p \in Procs : Stat(p)
    \/ \E c \in cleanups : Remove(c)
    \/ \E c \in cleanups : RemoveFails(c)
    \/ \E c \in cleanups : RemoveFS(c)
    \/ \E c \in cleanups : RemoveFSFails(c)

Spec == Init /\ [][Next]_vars

\* One caller runs calls for either user, one call after the other, with the
\* same failures and cleanups.
SeqNext ==
    \/ \E u \in Users : CallValidateUser("p1", u)
    \/ \E u \in Users : CallNewUser("p1", u)
    \/ \E u \in Users, a \in NewArgs : CallNew("p1", u, a[1], a[2])
    \/ \E u \in Users, a \in NewPathArgs : CallNewPath("p1", u, a[1], a[2])
    \/ \E u \in Users, a \in SaveBatchArgs : CallSaveBatch("p1", u, a[1], a[2])
    \/ \E u \in Users, a \in InfoPathArgs : CallInfoPath("p1", u, a)
    \/ \E u \in Users, a \in InfoArgs : CallInfo("p1", u, a)
    \/ Begin("p1")
    \/ NewDirInsertDirectory("p1")
    \/ NewDirInsertSelfPath("p1")
    \/ NewDirInsertParentPaths("p1")
    \/ NewDirGetDirFS("p1")
    \/ NewDirGetDir("p1")
    \/ Mkdir("p1")
    \/ MkdirFails("p1")
    \/ GetDirID("p1")
    \/ FindDirSelect("p1")
    \/ NewFileOpen("p1")
    \/ NewFileInsertFile("p1")
    \/ NewFileGetFile("p1")
    \/ NewFileGetFileFS("p1")
    \/ Create("p1")
    \/ Copy("p1")
    \/ NewFileClose("p1")
    \/ OpenFails("p1")
    \/ CreateFails("p1")
    \/ \E n \in 0..1 : CopyFails("p1", n)
    \/ Commit("p1")
    \/ CommitFails("p1")
    \/ \E rbOK \in BOOLEAN : Rollback("p1", rbOK)
    \/ FindFileSelect("p1")
    \/ ReadFileInfoSelect("p1")
    \/ ReadFileInfoGetFile("p1")
    \/ ReadFileInfoGetFileFS("p1")
    \/ Stat("p1")
    \/ \E c \in cleanups : Remove(c)
    \/ \E c \in cleanups : RemoveFails(c)
    \/ \E c \in cleanups : RemoveFS(c)
    \/ \E c \in cleanups : RemoveFSFails(c)

SeqSpec == Init /\ [][SeqNext]_vars

\* Directory creations by one caller, where every detached cleanup runs and
\* its delete succeeds.
LiveNext ==
    \/ \E u \in Users : CallValidateUser("p1", u)
    \/ \E u \in Users, a \in NewArgs : CallNew("p1", u, a[1], a[2])
    \/ \E u \in Users, a \in NewPathArgs : CallNewPath("p1", u, a[1], a[2])
    \/ Begin("p1")
    \/ NewDirInsertDirectory("p1")
    \/ NewDirInsertSelfPath("p1")
    \/ NewDirInsertParentPaths("p1")
    \/ NewDirGetDirFS("p1")
    \/ NewDirGetDir("p1")
    \/ Mkdir("p1")
    \/ MkdirFails("p1")
    \/ FindDirSelect("p1")
    \/ Commit("p1")
    \/ CommitFails("p1")
    \/ \E rbOK \in BOOLEAN : Rollback("p1", rbOK)
    \/ \E c \in cleanups : Remove(c)

LiveSpec == Init /\ [][LiveNext]_vars /\ WF_vars(\E c \in cleanups : Remove(c))

\* One caller runs every operation of the two services, with every failure
\* and every detached cleanup.
CoreNext ==
    \/ \E u \in Users : CallValidateUser("p1", u)
    \/ \E u \in Users : CallNewUser("p1", u)
    \/ \E u \in Users, a \in NewArgs : CallNew("p1", u, a[1], a[2])
    \/ \E u \in Users, a \in NewPathArgs : CallNewPath("p1", u, a[1], a[2])
    \/ \E u \in Users, a \in ConcSaveBatchArgs : CallSaveBatch("p1", u, a[1], a[2])
    \/ \E u \in Users, b \in CoreBatches : CallSaveBatchPath("p1", u, <<"a">>, b)
    \/ \E u \in Users, a \in InfoArgs : CallInfo("p1", u, a)
    \/ \E a \in CorePaths : CallInfoPath("p1", "u1", a)
    \/ \E a \in CorePaths, r \in SelectUserRootDirectory(directories, "u1") :
          CallFindDir("p1", "u1", r.id, a)
    \/ \E a \in CorePaths, r \in SelectUserRootDirectory(directories, "u1") :
          CallFindFile("p1", "u1", r.id, a)
    \/ Begin("p1")
    \/ NewDirInsertDirectory("p1")
    \/ NewDirInsertSelfPath("p1")
    \/ NewDirInsertParentPaths("p1")
    \/ NewDirGetDirFS("p1")
    \/ NewDirGetDir("p1")
    \/ Mkdir("p1")
    \/ MkdirFails("p1")
    \/ GetDirID("p1")
    \/ FindDirSelect("p1")
    \/ NewFileOpen("p1")
    \/ NewFileInsertFile("p1")
    \/ NewFileGetFile("p1")
    \/ NewFileGetFileFS("p1")
    \/ Create("p1")
    \/ Copy("p1")
    \/ NewFileClose("p1")
    \/ OpenFails("p1")
    \/ CreateFails("p1")
    \/ \E n \in 0..1 : CopyFails("p1", n)
    \/ Commit("p1")
    \/ CommitFails("p1")
    \/ \E rbOK \in BOOLEAN : Rollback("p1", rbOK)
    \/ FindFileSelect("p1")
    \/ ReadFileInfoSelect("p1")
    \/ ReadFileInfoGetFile("p1")
    \/ ReadFileInfoGetFileFS("p1")
    \/ Stat("p1")
    \/ \E c \in cleanups : Remove(c)
    \/ \E c \in cleanups : RemoveFails(c)
    \/ \E c \in cleanups : RemoveFS(c)
    \/ \E c \in cleanups : RemoveFSFails(c)

CoreSpec == Init /\ [][CoreNext]_vars

\* the paths a client may pass to DirService.Remove: those of the physical
\* directories below the top one, one of no directory, and the empty path
RemovePaths ==
    (fsDirs \ {<<FSRoot>>}) \cup {<<FSRoot, DanglingID>>, NoPath}

\* One caller creates directories and files for one user and calls Remove,
\* next to the detached cleanups
RemoveNext ==
    \/ \E d \in DirIDs : CallNew("p1", "u1", <<"a">>, d)
    \/ \E a \in ConcSaveBatchArgs : CallSaveBatch("p1", "u1", a[1], a[2])
    \/ \E q \in RemovePaths : \E K \in RemoveAllLeaves(q) : CallRemove("p1", q, K)
    \/ Begin("p1")
    \/ NewDirInsertDirectory("p1")
    \/ NewDirInsertSelfPath("p1")
    \/ NewDirInsertParentPaths("p1")
    \/ NewDirGetDirFS("p1")
    \/ NewDirGetDir("p1")
    \/ Mkdir("p1")
    \/ MkdirFails("p1")
    \/ GetDirID("p1")
    \/ NewFileOpen("p1")
    \/ NewFileInsertFile("p1")
    \/ NewFileGetFile("p1")
    \/ NewFileGetFileFS("p1")
    \/ Create("p1")
    \/ Copy("p1")
    \/ NewFileClose("p1")
    \/ CreateFails("p1")
    \/ Commit("p1")
    \/ CommitFails("p1")
    \/ \E rbOK \in BOOLEAN : Rollback("p1", rbOK)
    \/ \E c \in cleanups : Remove(c)
    \/ \E c \in cleanups : RemoveFails(c)
    \/ \E c \in cleanups : RemoveFS(c)
    \/ \E c \in cleanups : RemoveFSFails(c)

RemoveSpec == Init /\ [][RemoveNext]_vars

\* the names a client may give a directory, and the paths and root ids a
\* client may pass to FindDir, when paths with ".." are walked
WalkNames == {<<"a">>, <<".", ".">>}
WalkPaths ==
    {<<".", ".">>, <<".", ".", "/", "a">>, <<"a", "/", ".", ".">>, <<"/", ".", ".">>,
     <<".", ".", "/", ".", ".">>, <<"a", "/", ".", ".", "/", ".", ".">>, <<"a">>, <<>>}
WalkRoots == {d.id : d \in directories} \cup {EmptyID, DanglingID, MalformedID}

\* One caller creates directories for two users below any directory, also
\* one named "..", and looks paths up
WalkNext ==
    \/ \E u \in Users, n \in WalkNames, d \in DirIDs : CallNew("p1", u, n, d)
    \/ \E u \in Users, top \in WalkRoots, q \in WalkPaths : CallFindDir("p1", u, top, q)
    \/ Begin("p1")
    \/ NewDirInsertDirectory("p1")
    \/ NewDirInsertSelfPath("p1")
    \/ NewDirInsertParentPaths("p1")
    \/ NewDirGetDirFS("p1")
    \/ NewDirGetDir("p1")
    \/ Mkdir("p1")
    \/ FindDirSelect("p1")
    \/ Commit("p1")
    \/ \E rbOK \in BOOLEAN : Rollback("p1", rbOK)

WalkSpec == Init /\ [][WalkNext]_vars

\* One caller creating directories while the begin of a transaction may
\* fail
TxNext ==
    \/ \E u \in Users : CallValidateUser("p1", u)
    \/ \E u \in Users : CallNewUser("p1", u)
    \/ \E u \in Users, a \in NewArgs : CallNew("p1", u, a[1], a[2])
    \/ \E u \in Users, a \in NewPathArgs : CallNewPath("p1", u, a[1], a[2])
    \/ Begin("p1")
    \/ NewDirInsertDirectory("p1")
    \/ NewDirInsertSelfPath("p1")
    \/ NewDirInsertParentPaths("p1")
    \/ NewDirGetDirFS("p1")
    \/ NewDirGetDir("p1")
    \/ Mkdir("p1")
    \/ BeginFails("p1")
    \/ MkdirFails("p1")
    \/ FindDirSelect("p1")
    \/ Commit("p1")
    \/ CommitFails("p1")
    \/ \E rbOK \in BOOLEAN : Rollback("p1", rbOK)
    \/ \E c \in cleanups : Remove(c)

TxSpec == Init /\ [][TxNext]_vars

\* File uploads and reads by one caller for either user, into the root and
\* into one directory below it, with the same failures and cleanups.
FileNext ==
    \/ \E u \in Users : CallNew("p1", u, <<"a">>, EmptyID)
    \/ \E u \in Users, a \in SaveBatchArgs : CallSaveBatch("p1", u, a[1], a[2])
    \/ \E u \in Users, a \in SaveBatchPathArgs : CallSaveBatchPath("p1", u, a[1], a[2])
    \/ \E u \in Users, a \in InfoPathArgs : CallInfoPath("p1", u, a)
    \/ \E u \in Users, a \in InfoArgs : CallInfo("p1", u, a)
    \/ \E u \in Users, a \in FindFileArgs : \E r \in SelectUserRootDirectory(directories, u) :
          CallFindFile("p1", u, r.id, a)
    \/ Begin("p1")
    \/ NewDirInsertDirectory("p1")
    \/ NewDirInsertSelfPath("p1")
    \/ NewDirInsertParentPaths("p1")
    \/ NewDirGetDirFS("p1")
    \/ NewDirGetDir("p1")
    \/ Mkdir("p1")
    \/ MkdirFails("p1")
    \/ GetDirID("p1")
    \/ FindDirSelect("p1")
    \/ NewFileOpen("p1")
    \/ NewFileInsertFile("p1")
    \/ NewFileGetFile("p1")
    \/ NewFileGetFileFS("p1")
    \/ Create("p1")
    \/ Copy("p1")
    \/ NewFileClose("p1")
    \/ OpenFails("p1")
    \/ CreateFails("p1")
    \/ \E n \in 0..1 : CopyFails("p1", n)
    \/ Commit("p1")
    \/ CommitFails("p1")
    \/ \E rbOK \in BOOLEAN : Rollback("p1", rbOK)
    \/ FindFileSelect("p1")
    \/ ReadFileInfoSelect("p1")
    \/ ReadFileInfoGetFile("p1")
    \/ ReadFileInfoGetFileFS("p1")
    \/ Stat("p1")
    \/ \E c \in cleanups : Remove(c)
    \/ \E c \in cleanups : RemoveFails(c)
    \/ \E c \in cleanups : RemoveFS(c)
    \/ \E c \in cleanups : RemoveFSFails(c)

FileSpec == Init /\ [][FileNext]_vars

\* the physical file f of a committed file row disappears from the
\* filesystem behind the store's back: the drift that the Stat of
\* IO.ReadFileInfo meets
Drift(f) ==
    /\ f \in fsFiles
    /\ \E r \in files :
          f.path = GetFileFS(directories, paths, r.directory_id, r.id)
    /\ fsFiles' = fsFiles \ {f}
    /\ UNCHANGED <<directories, paths, files, fsDirs, tx, pc, call, w, rd, root,
                   results, ret, cleanups, logged, nextID, faults>>

\* One caller uploads files and asks for their FileInfo, for either user,
\* while physical files may disappear from the filesystem.
DriftNext ==
    \/ \E u \in Users, a \in SaveBatchArgs : CallSaveBatch("p1", u, a[1], a[2])
    \/ \E u \in Users, a \in InfoPathArgs : CallInfoPath("p1", u, a)
    \/ \E u \in Users, a \in InfoArgs : CallInfo("p1", u, a)
    \/ \E f \in fsFiles : Drift(f)
    \/ Begin("p1")
    \/ NewDirInsertDirectory("p1")
    \/ NewDirInsertSelfPath("p1")
    \/ NewDirGetDirFS("p1")
    \/ NewDirGetDir("p1")
    \/ Mkdir("p1")
    \/ GetDirID("p1")
    \/ FindDirSelect("p1")
    \/ NewFileOpen("p1")
    \/ NewFileInsertFile("p1")
    \/ NewFileGetFile("p1")
    \/ NewFileGetFileFS("p1")
    \/ Create("p1")
    \/ Copy("p1")
    \/ NewFileClose("p1")
    \/ Commit("p1")
    \/ \E rbOK \in BOOLEAN : Rollback("p1", rbOK)
    \/ FindFileSelect("p1")
    \/ ReadFileInfoSelect("p1")
    \/ ReadFileInfoGetFile("p1")
    \/ ReadFileInfoGetFileFS("p1")
    \/ Stat("p1")

DriftSpec == Init /\ [][DriftNext]_vars

\* One caller creates directories by path and resolves paths, for either
\* user, with the failures and cleanups of a directory write.
PathNext ==
    \/ \E u \in Users, n \in PathNames, q \in PathPaths \cup MissingPaths :
          CallNewPath("p1", u, n, q)
    \/ \E u \in Users, a \in FindDirArgs : \E r \in SelectUserRootDirectory(directories, u) :
          CallFindDir("p1", u, r.id, a)
    \/ Begin("p1")
    \/ NewDirInsertDirectory("p1")
    \/ NewDirInsertSelfPath("p1")
    \/ NewDirInsertParentPaths("p1")
    \/ NewDirGetDirFS("p1")
    \/ NewDirGetDir("p1")
    \/ Mkdir("p1")
    \/ MkdirFails("p1")
    \/ FindDirSelect("p1")
    \/ Commit("p1")
    \/ CommitFails("p1")
    \/ \E rbOK \in BOOLEAN : Rollback("p1", rbOK)
    \/ \E c \in cleanups : Remove(c)
    \/ \E c \in cleanups : RemoveFails(c)

PathSpec == Init /\ [][PathNext]_vars
----------------------------------------------------------------------------
(* Properties *)

\* the physical directories whose last path element is id
DirsNamed(id) == {d \in fsDirs : Len(d) > 1 /\ d[Len(d)] = id}

\* the id of the committed root of user u (the empty id when there is none)
RootID(u) ==
    LET rows == SelectUserRootDirectory(directories, u)
    IN  IF rows = {} THEN EmptyID ELSE (CHOOSE r \in rows : TRUE).id

\* caller p's last call ended in DirService.write for a directory below a
\* committed parent
WroteDir(p) ==
    /\ pc[p] = "idle"
    /\ ret[p].stage = "write"
    /\ \E d \in directories : d.id = ret[p].parent

\* C1: store/disk consistency.  In every reachable state every committed
\* directory row has a physical directory at its id-based filesystem path,
\* and every committed file row has a physical file at
\* <directory filesystem path>/<file id>.
C1_StoreDiskConsistency ==
    /\ \A d \in directories : GetDirFS(directories, paths, d.id) \in fsDirs
    /\ \A f \in files :
          \E x \in fsFiles :
             x.path = GetFileFS(directories, paths, f.directory_id, f.id)

\* a directory and a file are committed, and a creation whose commit failed
\* has had its cleanup run
C1_Witness ==
    /\ directories # {}
    /\ files # {}
    /\ cleanups = {}
    /\ \E p \in Procs : pc[p] = "idle" /\ ret[p].err = "ErrCommitTx"

\* the errors of a failure of the filesystem or of the commit
FaultErrs == {"ErrCommitTx", "ErrMkdir"}

\* callers p and q have both finished a creation with the same
\* (parentID, name), and neither began after the other had committed
Contest(p, q) ==
    /\ p # q
    /\ WroteDir(p) /\ WroteDir(q)
    /\ ret[p].parent = ret[q].parent
    /\ ret[p].name = ret[q].name
    /\ ret[p].free /\ ret[q].free

\* the user path of the name a finished creation of p asked for
ContestedPath(p) ==
    LET parentPath == GetDir(directories, paths, ret[p].parent)
    IN  IF parentPath = <<"/">> THEN parentPath \o ret[p].name
        ELSE parentPath \o <<"/">> \o ret[p].name

\* C2: of two concurrent creations with the same (parentID, name) never both
\* commit, and unless a commit or mkdir failure hit one of them exactly one
\* succeeds while the other returns the unique-name error; a creation that
\* returned an error leaves no physical directory under its generated id
\* once the cleanup it scheduled has run (a cleanup whose delete failed logs
\* the path it left), and FindDir never resolves the contested name to the
\* id of the creation that failed.
C2_ConcurrentSameName ==
    /\ \A r, t \in directories :
          (r.parent_id # Null /\ r.parent_id = t.parent_id /\ r.name = t.name) => r = t
    /\ \A p, q \in Procs :
          Contest(p, q) =>
             /\ ~(ret[p].err = NoErr /\ ret[q].err = NoErr)
             /\ (ret[p].err \notin FaultErrs /\ ret[q].err \notin FaultErrs) =>
                   \/ ret[p].err = NoErr /\ ret[q].err = "ErrUniqueNameParentID"
                   \/ ret[q].err = NoErr /\ ret[p].err = "ErrUniqueNameParentID"
    /\ \A p \in Procs :
          (WroteDir(p) /\ ret[p].err # NoErr) =>
             /\ \/ DirsNamed(ret[p].newID) = {}
                \/ \E c \in cleanups : c.id = ret[p].newID
                \/ \E l \in logged : l # NoPath /\ l[Len(l)] = ret[p].newID
             /\ FindDir(directories, ret[p].user, RootID(ret[p].user),
                        ContestedPath(p)).id # ret[p].newID
             /\ \A d \in directories : d.id # ret[p].newID

\* two creations raced for one name: one committed and is what FindDir
\* resolves the name to, the other returned the unique-name error
C2_Witness ==
    \E p, q \in Procs :
       /\ Contest(p, q)
       /\ ret[p].err = NoErr
       /\ ret[q].err = "ErrUniqueNameParentID"
       /\ FindDir(directories, ret[p].user, RootID(ret[p].user),
                  ContestedPath(q)).id = ret[p].newID

\* in this step the commit of caller p's transaction fails: p leaves Commit
\* and the rows it staged are not in the tables
CommitFailed(p) ==
    /\ pc[p] = "Commit"
    /\ pc'[p] # "Commit"
    /\ ~(tx[p].dirs \subseteq directories' /\ tx[p].files \subseteq files')

\* in this step the rollback of caller p's transaction is done, after the
\* transaction function or the commit ended with one of the errors errs:
\* Store.Tx returns the error, and the write returns
RolledBack(p, errs) ==
    /\ pc[p] = "Rollback"
    /\ pc'[p] # "Rollback"
    /\ w[p].err \in errs

\* C3: when the commit of a directory creation fails after the physical
\* directory was made, the write goes on to the rollback with the commit
\* error, and in the step in which the rollback is done and the write
\* returns, a cleanup of exactly that directory's path is scheduled, and
\* no other; and where every scheduled cleanup runs and its delete
\* succeeds, the physical directory of a creation whose cleanup was
\* scheduled is eventually absent.
C3_CommitFailureCleanup ==
    /\ [][\A p \in Procs :
             (CommitFailed(p) /\ w[p].kind = "dir") =>
                /\ w[p].fsPath \in fsDirs
                /\ w[p].fsPath = GetDirFS(DirsOf(p), PathsOf(p), w[p].id)
                /\ pc'[p] = "Rollback"
                /\ w'[p].err = "ErrCommitTx"
                /\ cleanups' = cleanups]_vars
    /\ [][\A p \in Procs :
             (RolledBack(p, {"ErrCommitTx"}) /\ w[p].kind = "dir") =>
                /\ w[p].fsPath \in fsDirs
                /\ w[p].fsPath = GetDirFS(DirsOf(p), PathsOf(p), w[p].id)
                /\ [kind |-> "dir", path |-> w[p].fsPath, id |-> w[p].id] \in cleanups'
                /\ cleanups' \ cleanups =
                      {[kind |-> "dir", path |-> w[p].fsPath, id |-> w[p].id]}]_vars
    /\ \A n \in 1..MaxIDs :
          (\E c \in cleanups : c.kind = "dir" /\ c.id = UUID(n))
             ~> (DirsNamed(UUID(n)) = {})

\* a creation's commit failed, its cleanup has run and its directory is gone,
\* while the directory of its parent is still there
C3_Witness ==
    /\ pc["p1"] = "idle"
    /\ ret["p1"].err = "ErrCommitTx"
    /\ ret["p1"].parent # Null
    /\ cleanups = {}
    /\ DirsNamed(ret["p1"].newID) = {}
    /\ DirsNamed(ret["p1"].parent) # {}

\* in this step the file write of caller p returns its failure after its
\* physical file was created: the copy or the commit failed, and the
\* rollback is done
FileWriteFailed(p) ==
    /\ w[p].kind = "file"
    /\ RolledBack(p, {"ErrCopy", "ErrCommitTx"})

\* C4: the step in which a file write of SaveBatch returns its failure,
\* because the copy failed after the physical file was created or because
\* the commit failed, schedules a cleanup of the path
\* <directory filesystem path>/<generated file id> of the physical file
\* that write created.
C4_FailedFileWriteCleanup ==
    [][\A p \in Procs :
          FileWriteFailed(p) =>
             /\ \E f \in fsFiles' : f.path = w[p].fsPath
             /\ w[p].fsPath = GetFileFS(DirsOf(p), PathsOf(p), w[p].parent, w[p].id)
             /\ [kind |-> "file", path |-> w[p].fsPath, id |-> w[p].id]
                   \in cleanups']_vars

\* the errors of an insert that a relational constraint rejected
ConstraintErrs ==
    {"ErrForeignKeyParentID", "ErrUniqueNameParentID", "ErrUniqueUserRoot",
     "ErrSyntaxParentID"}

\* the positions of IO.NewDir up to its call of os.Mkdir
BeforeMkdir ==
    {"InsertDirectory", "InsertSelfPath", "InsertParentPaths", "GetDirFS",
     "GetDir", "Mkdir"}

\* C5: no physical directory exists under the generated id of a creation
\* before its insert has run, nor while the transaction of a rejected
\* insert is rolled back, and a creation that a relational constraint
\* rejected (dangling parent, duplicate sibling name, duplicate user root,
\* malformed parent id) has returned with no physical directory under its
\* generated id and with no cleanup scheduled or logged for it: nothing was
\* created for it on the filesystem.
C5_RejectedBeforeFilesystem ==
    \A p \in Procs :
       /\ (\/ pc[p] \in BeforeMkdir
           \/ pc[p] = "Rollback" /\ w[p].err \in ConstraintErrs) =>
             /\ DirsNamed(w[p].id) = {}
             /\ \A c \in cleanups : c.id # w[p].id
       /\ (pc[p] = "idle" /\ ret[p].err \in ConstraintErrs) =>
             /\ ret[p].newID # EmptyID
             /\ DirsNamed(ret[p].newID) = {}
             /\ \A d \in fsDirs : \A i \in 1..Len(d) : d[i] # ret[p].newID
             /\ \A c \in cleanups : c.id # ret[p].newID
             /\ \A l \in logged : l = NoPath \/ l[Len(l)] # ret[p].newID
             /\ \A d \in directories : d.id # ret[p].newID

\* one caller was rejected as a second root of its user, the other by a
\* dangling or a malformed parent id
C5_Witness ==
    \E p, q \in Procs :
       /\ pc[p] = "idle" /\ ret[p].err = "ErrUniqueUserRoot"
       /\ pc[q] = "idle"
       /\ ret[q].err \in {"ErrForeignKeyParentID", "ErrSyntaxParentID"}

\* the per-item results caller p holds after a step: those returned when the
\* batch ended in the step, else those collected so far
ResultsAfter(p) == IF pc'[p] = "idle" THEN ret'[p].results ELSE results'[p]

\* C6: a step in which the commit of a directory or file creation fails
\* takes the write to the rollback with the commit error, and the step in
\* which the rollback is done makes the creation return the commit error
\* with no Dir (the call ends with the error and an empty id) or append a
\* per-item result that carries the error and no file id, whether or not
\* the rollback failed; and a step of a cleanup, whether its delete
\* succeeds or fails, changes no result returned or collected.
C6_CommitFailureIsError ==
    /\ [][\A p \in Procs :
             CommitFailed(p) =>
                /\ pc'[p] = "Rollback"
                /\ w'[p].err = "ErrCommitTx"
                /\ ret'[p] = ret[p]
                /\ results'[p] = results[p]]_vars
    /\ [][\A p \in Procs :
             RolledBack(p, {"ErrCommitTx"}) =>
                IF w[p].kind = "dir"
                THEN /\ pc'[p] = "idle"
                     /\ ret'[p].err = "ErrCommitTx"
                     /\ ret'[p].id = EmptyID
                ELSE LET rs == ResultsAfter(p) IN
                     /\ Len(rs) = Len(results[p]) + 1
                     /\ rs[Len(rs)].Err = "ErrCommitTx"
                     /\ rs[Len(rs)].ID = EmptyID]_vars
    /\ [][(cleanups' # cleanups /\ cleanups' \subseteq cleanups) =>
             (ret' = ret /\ results' = results /\ pc' = pc)]_vars

\* a creation whose commit failed has returned the error, and its cleanup
\* failed too and logged the path
C6_Witness ==
    \E p \in Procs :
       /\ pc[p] = "idle"
       /\ ret[p].err = "ErrCommitTx"
       /\ \E l \in logged : l # NoPath /\ l[Len(l)] = ret[p].newID

\* C7: every user has at most one committed root; a ValidateUser call that
\* returned success returned the id of that root, and the root id a running
\* call holds is that id; a caller that lost the race for the root has an
\* error, not an id; and when no call is running and no cleanup is pending,
\* every physical directory directly below the storage root is the
\* directory of a committed root (or one whose delete failed and was
\* logged), so that at most one physical root per user remains.
C7_SingleUserRoot ==
    /\ \A u \in Users : Cardinality(SelectUserRootDirectory(directories, u)) <= 1
    /\ \A p \in Procs :
          /\ (pc[p] = "idle" /\ ret[p].op = "ValidateUser" /\ ret[p].err = NoErr) =>
                /\ ret[p].id # EmptyID
                /\ ret[p].id = RootID(ret[p].user)
          /\ (pc[p] = "idle" /\ ret[p].err = "ErrUniqueUserRoot") =>
                /\ ret[p].id = EmptyID
                /\ ret[p].newID # RootID(ret[p].user)
          /\ root[p] # EmptyID => root[p] = RootID(call[p].user)
    /\ ((\A p \in Procs : pc[p] = "idle") /\ cleanups = {}) =>
          \A d \in fsDirs :
             Len(d) = 2 =>
                \/ d \in logged
                \/ \E r \in directories :
                      /\ r.parent_id = Null
                      /\ r.name = S_root
                      /\ d = GetDirFS(directories, paths, r.id)

\* two ValidateUser calls raced: one made the root, the loser has the error
\* of the unique-root constraint, and one physical root is left
C7_Witness ==
    \E p, q \in Procs :
       /\ pc[p] = "idle" /\ pc[q] = "idle" /\ cleanups = {}
       /\ ret[p].op = "ValidateUser" /\ ret[p].stage = "created"
       /\ ret[q].op = "ValidateUser" /\ ret[q].err = "ErrUniqueUserRoot"
       /\ Cardinality({d \in fsDirs : Len(d) = 2}) = 1

\* in this step caller p calls ValidateUser for user u: the call returns in
\* the step, or it goes on to write
CallsValidateUser(p, u) ==
    /\ pc[p] = "idle"
    /\ \/ call'[p].op = "ValidateUser" /\ call'[p].user = u
       \/ ret'[p] # ret[p] /\ ret'[p].op = "ValidateUser" /\ ret'[p].user = u

\* C8: a successful ValidateUser call returns the id of the user's committed
\* root, and a ValidateUser call that follows a successful one for the same
\* user returns in one step with the same id, having added no directory row
\* and no path row, made no physical directory and drawn no new id.
C8_EnsureUserRootIdempotent ==
    /\ [](\A p \in Procs :
             (pc[p] = "idle" /\ ret[p].op = "ValidateUser" /\ ret[p].err = NoErr) =>
                (ret[p].id # EmptyID /\ ret[p].id = RootID(ret[p].user)))
    /\ [][\A p \in Procs, u \in Users :
             (/\ ret[p].op = "ValidateUser" /\ ret[p].user = u /\ ret[p].err = NoErr
              /\ CallsValidateUser(p, u)) =>
                /\ pc'[p] = "idle"
                /\ ret'[p].err = NoErr
                /\ ret'[p].id = ret[p].id
                /\ directories' = directories
                /\ paths' = paths
                /\ fsDirs' = fsDirs
                /\ nextID' = nextID]_vars

\* a ValidateUser call made the root of a user, and the next call found it
C8_Witness ==
    /\ pc["p1"] = "idle"
    /\ ret["p1"].op = "ValidateUser"
    /\ ret["p1"].stage = "found"
    /\ ret["p1"].id = RootID(ret["p1"].user)
    /\ Cardinality(DirsNamed(ret["p1"].id)) = 1

\* every directory on the way from the root down to directory s belongs to the
\* owner of s
OwnsPath(D, P, s) == \A x \in PathJoin(D, P, s.id) : x.d.user_id = s.user_id

\* in this step caller p's insert of a directory row runs while the
\* committed row s has the same (parentID, name)
SecondCreation(p, s) ==
    /\ pc[p] = "InsertDirectory"
    /\ pc'[p] # "InsertDirectory"
    /\ w[p].parent # Null
    /\ s \in directories
    /\ s.parent_id = w[p].parent
    /\ s.name = w[p].name

\* in this step the rollback of such an insert of caller p is done, and the
\* creation returns
SecondCreationReturned(p, s) ==
    /\ RolledBack(p, {"ErrUniqueNameParentID"})
    /\ w[p].kind = "dir"
    /\ s \in directories
    /\ s.parent_id = w[p].parent
    /\ s.name = w[p].name

\* what the step in which such a creation returns does
SecondCreationReturns ==
    [][\A p \in Procs : \A s \in directories :
          SecondCreationReturned(p, s) =>
             /\ pc'[p] = "idle"
             /\ ret'[p].err = "ErrUniqueNameParentID"
             /\ ret'[p].id = EmptyID
             /\ tx'[p] = NoTx
             /\ directories' = directories
             /\ paths' = paths
             /\ fsDirs' = fsDirs
             /\ GetDirFS(directories', paths', s.id) \in fsDirs'
             /\ OwnsPath(directories, paths, s) =>
                   FindDir(directories', s.user_id,
                           (CHOOSE r \in SelectUserRootDirectory(directories', s.user_id) : TRUE).id,
                           GetDir(directories', paths', s.id)).id = s.id]_vars

\* C9: the insert of a creation with the (parentID, name) of a committed
\* directory fails with the unique-name error (Conflict), stages nothing
\* and takes the write to the rollback; the creation then returns that
\* error with no Dir, and the rows of directories and paths and the
\* physical directories are as they were; the first directory keeps its
\* physical directory, and FindDir still resolves its path to it for its
\* owner (when the directories above it are the owner's).
C9_SecondCreationConflicts ==
    /\ [][\A p \in Procs : \A s \in directories :
             SecondCreation(p, s) =>
                /\ pc'[p] = "Rollback"
                /\ w'[p].err = "ErrUniqueNameParentID"
                /\ tx' = tx
                /\ directories' = directories
                /\ paths' = paths
                /\ fsDirs' = fsDirs]_vars
    /\ SecondCreationReturns

\* a second creation of a name below the same parent has failed with the
\* unique-name error, and the first directory is there
C9_Witness ==
    /\ pc["p1"] = "idle"
    /\ ret["p1"].err = "ErrUniqueNameParentID"
    /\ \E s \in directories :
          /\ s.parent_id = ret["p1"].parent
          /\ s.name = ret["p1"].name
          /\ OwnsPath(directories, paths, s)
          /\ GetDirFS(directories, paths, s.id) \in fsDirs

RECURSIVE Ancestor(_, _, _)
\* the id reached from directory id by following parent_id d times
Ancestor(D, id, d) ==
    IF d = 0 THEN id
    ELSE Ancestor(D, (CHOOSE r \in D : r.id = id).parent_id, d - 1)

RECURSIVE Depth(_, _)
\* the number of parent_id links from directory id up to a root
Depth(D, id) ==
    LET r == CHOOSE x \in D : x.id = id
    IN  IF r.parent_id = Null THEN 0 ELSE 1 + Depth(D, r.parent_id)

\* C10: for every committed directory at depth N below its root, the path
\* rows with it as child are exactly one row for each depth d in 0..N, and
\* the row of depth d names as parent the directory reached by following
\* parent_id d times (the directory itself for d = 0); both path
\* reconstructions yield N + 1 segments.
C10_AncestryIntegrity ==
    \A d \in directories :
       LET N == Depth(directories, d.id) IN
       /\ {p \in paths : p.child_id = d.id} =
             {[parent_id |-> Ancestor(directories, d.id, k), child_id |-> d.id,
               depth |-> k] : k \in 0..N}
       /\ Cardinality({p \in paths : p.child_id = d.id}) = N + 1
       /\ Len(SelectDirectoryPath(directories, paths, d.id)) = N + 1
       /\ Len(SelectDirectoryFSPath(directories, paths, d.id)) = N + 1

\* a directory two levels below its root is committed
C10_Witness ==
    \E d \in directories : Depth(directories, d.id) = 2

\* the single-item creations
CreateOps == {"New", "NewPath"}

\* the last call of caller p was a New or NewPath that returned an error
FailedCreate(p) ==
    /\ pc[p] = "idle"
    /\ ret[p].op \in CreateOps
    /\ ret[p].err # NoErr

\* the filesystem paths of the directory rows D with path rows P
RowDirs(D, P) == {GetDirFS(D, P, r.id) : r \in D}

\* C11 as claimed: when New or NewPath has returned an error to a single
\* caller, the committed rows of directories and paths are those from before
\* the call, and once the scheduled cleanups have run every physical
\* directory is that of a row from before the call (or one whose delete
\* failed and was logged).
C11_AllOrNothing ==
    \A p \in Procs :
       FailedCreate(p) =>
          /\ directories = ret[p].before.dirs
          /\ paths = ret[p].before.paths
          /\ cleanups = {} =>
                \A d \in fsDirs :
                   \/ d = <<FSRoot>>
                   \/ d \in logged
                   \/ d \in RowDirs(ret[p].before.dirs, ret[p].before.paths)

\* C11 amended: when New or NewPath has returned an error to a single
\* caller, the committed rows are those from before the call and at most
\* the root of the user, with its self path, which the call's ValidateUser
\* made when the user had none; the directory asked for has no row, and
\* once the scheduled cleanups have run no physical directory is left under
\* its generated id, and every physical directory is that of a committed
\* row (or one whose delete failed and was logged).
C11_AllOrNothingButRoot ==
    \A p \in Procs :
       FailedCreate(p) =>
          LET b == ret[p].before
              made == directories \ b.dirs
          IN  /\ b.dirs \subseteq directories
              /\ b.paths \subseteq paths
              /\ made \subseteq SelectUserRootDirectory(directories, ret[p].user)
              /\ made # {} => SelectUserRootDirectory(b.dirs, ret[p].user) = {}
              /\ paths \ b.paths = UNION {InsertSelfPath(r.id) : r \in made}
              /\ \A d \in directories : d.id # ret[p].newID
              /\ cleanups = {} =>
                    /\ DirsNamed(ret[p].newID) \subseteq logged
                    /\ \A d \in fsDirs :
                          \/ d = <<FSRoot>>
                          \/ d \in logged
                          \/ d \in RowDirs(directories, paths)

\* a creation for a user without a root has returned an error, after its
\* ValidateUser made the root, and no cleanup is pending
C11_Witness ==
    \E p \in Procs :
       /\ FailedCreate(p)
       /\ ret[p].stage \in {"parentFunc", "write"}
       /\ directories # ret[p].before.dirs
       /\ cleanups = {}

\* every successful result of rs is a committed file row with its bytes: the
\* row has the result's id, name, directory and owner, and the physical
\* file at <directory filesystem path>/<file id> has the result's size
Saved(rs) ==
    \A i \in 1..Len(rs) :
       rs[i].Err = NoErr =>
          \E f \in files :
             /\ f.id = rs[i].ID
             /\ f.name = rs[i].Name
             /\ f.directory_id = rs[i].DirectoryID
             /\ f.user_id = rs[i].OwnerID
             /\ [path |-> GetFileFS(directories, paths, f.directory_id, f.id),
                 size |-> rs[i].Size] \in fsFiles

\* in this step FileService.write of caller p returns to saveBatch
FileWriteReturned(p) ==
    /\ w[p].kind = "file"
    /\ results'[p] # results[p] \/ pc'[p] = "idle"

\* C12: while a batch runs, the results collected so far are one per header
\* already written, in input order, and the write in progress is that of
\* the next header; each return of FileService.write appends one result for
\* that header and leaves the earlier results as they were, and the batch
\* returns exactly when the last header has its result, else the next
\* header is written, whatever the result was; the row and the bytes of
\* every successful result stay committed through later failures.
C12_BatchPartialFailure ==
    /\ [](\A p \in Procs :
             /\ w[p].kind = "file" =>
                   /\ Len(results[p]) < Len(call[p].fileHeaders)
                   /\ \A i \in 1..Len(results[p]) :
                         /\ results[p][i].Name = call[p].fileHeaders[i].Filename
                         /\ results[p][i].Size = call[p].fileHeaders[i].Size
                   /\ Saved(results[p])
             /\ w[p].kind = "file" =>
                   /\ w[p].name = call[p].fileHeaders[Len(results[p]) + 1].Filename
                   /\ w[p].size = call[p].fileHeaders[Len(results[p]) + 1].Size
             /\ (pc[p] = "idle" /\ ret[p].stage = "saveBatch") => Saved(ret[p].results))
    /\ [][\A p \in Procs :
             FileWriteReturned(p) =>
                LET rs == ResultsAfter(p)
                    n == Len(results[p])
                IN  /\ Len(rs) = n + 1
                    /\ SubSeq(rs, 1, n) = results[p]
                    /\ rs[n + 1].Name = call[p].fileHeaders[n + 1].Filename
                    /\ rs[n + 1].Size = call[p].fileHeaders[n + 1].Size
                    /\ IF n + 1 = Len(call[p].fileHeaders)
                       THEN pc'[p] = "idle" /\ ret'[p].err = NoErr
                       ELSE /\ pc'[p] = "Begin"
                            /\ w'[p].kind = "file"
                            /\ w'[p].name = call[p].fileHeaders[n + 2].Filename
                    /\ files \subseteq files']_vars

\* a batch of two has returned: the write of the first file failed, the
\* second file was saved after it
C12_Witness ==
    \E p \in Procs :
       /\ pc[p] = "idle"
       /\ ret[p].stage = "saveBatch"
       /\ Len(ret[p].results) = 2
       /\ ret[p].results[1].Err # NoErr
       /\ ret[p].results[2].Err = NoErr
       /\ Saved(ret[p].results)

\* the errors of a failed filesystem call or commit of a file write
IOErrs == {"ErrOpen", "ErrCreate", "ErrCopy", "ErrCommitTx"}

\* C13: for one caller, a file write of a batch that no I/O or commit
\* failure hit returns the unique-name error (Conflict) exactly when its
\* name is that of an earlier successful item of the batch or of another
\* file already in the directory, and succeeds otherwise; a write adds
\* exactly the row of its item when it succeeds and none when it fails, and
\* Info then reads the file under the generated id exactly when the write
\* succeeded.  When the batch has returned, Info returns for every
\* successful item what the item's result says, and a failed item has no id.
C13_BatchConflicts ==
    /\ [][\A p \in Procs :
             FileWriteReturned(p) =>
                LET rs == ResultsAfter(p)
                    item == rs[Len(rs)]
                    dup == \/ \E i \in 1..Len(results[p]) :
                                 /\ results[p][i].Err = NoErr
                                 /\ results[p][i].Name = w[p].name
                           \/ \E f \in files :
                                 /\ f.directory_id = w[p].parent
                                 /\ f.name = w[p].name
                                 /\ \A i \in 1..Len(results[p]) : results[p][i].ID # f.id
                IN  /\ item.Err \notin IOErrs =>
                          /\ item.Err = "ErrUniqueDirectoryIDName" <=> dup
                          /\ item.Err = NoErr <=> ~dup
                    /\ IF item.Err = NoErr
                       THEN /\ item.ID = w[p].id
                            /\ files' \ files = {f \in files' : f.id = item.ID}
                            /\ Cardinality(files' \ files) = 1
                            /\ Info(directories', paths', files', fsFiles',
                                    w[p].user, w[p].id).Err = NoErr
                       ELSE /\ item.ID = EmptyID
                            /\ files' = files
                            /\ Info(directories', paths', files', fsFiles',
                                    w[p].user, w[p].id).Err = "NotFound"]_vars
    /\ [](\A p \in Procs :
             (pc[p] = "idle" /\ ret[p].stage = "saveBatch") =>
                \A i \in 1..Len(ret[p].results) :
                   LET item == ret[p].results[i] IN
                   IF item.Err = NoErr
                   THEN Info(directories, paths, files, fsFiles,
                             ret[p].user, item.ID) = item
                   ELSE item.ID = EmptyID)

\* a batch of two files with one name into a directory has returned: the
\* first was saved and is readable, the second has the Conflict
C13_Witness ==
    \E p \in Procs :
       /\ pc[p] = "idle"
       /\ ret[p].stage = "saveBatch"
       /\ Len(ret[p].results) = 2
       /\ ret[p].results[1].Err = NoErr
       /\ ret[p].results[2].Err = "ErrUniqueDirectoryIDName"
       /\ Info(directories, paths, files, fsFiles,
               ret[p].user, ret[p].results[1].ID) = ret[p].results[1]
       /\ Cardinality({f \in files : f.directory_id = ret[p].parent}) = 1

\* in this step a SaveBatch or SaveBatchPath call of caller p returns its
\* per-item results
BatchReturned(p) ==
    /\ pc[p] # "idle"
    /\ pc'[p] = "idle"
    /\ ret'[p].stage = "saveBatch"

\* C14: the results a SaveBatch or SaveBatchPath call returns are one per
\* header of the call, and the i-th result carries the Filename and Size of
\* the i-th header whether the write succeeded or failed; a failed result
\* has an error and the empty id (and no owner, directory or path), a
\* successful one has the generated id and no error.
C14_ResultsCarryNameAndSize ==
    [][\A p \in Procs :
          BatchReturned(p) =>
             LET rs == ret'[p].results
                 hs == call[p].fileHeaders
             IN  /\ ret'[p].op \in {"SaveBatch", "SaveBatchPath"}
                 /\ Len(rs) = Len(hs)
                 /\ \A i \in 1..Len(rs) :
                       /\ rs[i].Name = hs[i].Filename
                       /\ rs[i].Size = hs[i].Size
                       /\ rs[i].Err # NoErr =>
                             /\ rs[i].ID = EmptyID
                             /\ rs[i].OwnerID = ""
                             /\ rs[i].DirectoryID = EmptyID
                             /\ rs[i].Path = EmptyStr
                       /\ rs[i].Err = NoErr => IsUUID(rs[i].ID)]_vars

\* a SaveBatchPath call has returned two results: the file "a" of size 1 was
\* saved, the write of the file "b" of size 2 failed
C14_Witness ==
    \E p \in Procs :
       /\ pc[p] = "idle"
       /\ ret[p].op = "SaveBatchPath"
       /\ ret[p].stage = "saveBatch"
       /\ Len(ret[p].results) = 2
       /\ ret[p].results[1].Err = NoErr
       /\ ret[p].results[1].Size = 1
       /\ ret[p].results[2].Err # NoErr
       /\ ret[p].results[2].Name = <<"b">>
       /\ ret[p].results[2].Size = 2

\* a step in which the SaveBatch call of caller p returns from getDirID
SaveBatchRejected(p) ==
    /\ pc'[p] = "idle"
    /\ ret'[p].op = "SaveBatch"
    /\ ret'[p].stage = "getDirID"
    /\ (pc[p] # "idle" \/ ret'[p] # ret[p])

\* the files of a SaveBatch are only ever written into a directory that
\* belongs to the caller
SaveBatchIntoOwnDirectory ==
    \A p \in Procs :
       (w[p].kind = "file" /\ call[p].op = "SaveBatch") =>
          SelectDirectoryByIDUser(directories, w[p].parent, w[p].user).rows # {}

\* a step in which getDirID rejects the id of a SaveBatch ends the call
\* without results, with no write begun, no cleanup scheduled, and the file
\* rows and the physical files as they were; the error is NotFound when the
\* id is a uuid, and one of errs when it is not
SaveBatchRejectedWith(errs) ==
    \A p \in Procs :
       SaveBatchRejected(p) =>
          LET r == ret'[p] IN
          /\ r.parent # EmptyID
          /\ SelectDirectoryByIDUser(directories, r.parent, r.user).rows = {}
          /\ r.err \in (IF IsUUID(r.parent) THEN {"NotFound"} ELSE errs)
          /\ r.id = EmptyID
          /\ r.results = <<>>
          /\ w'[p] = NoWrite
          /\ files' = files
          /\ fsFiles' = fsFiles
          /\ cleanups' = cleanups
          /\ tx' = tx

\* C15: SaveBatch with a non-empty directoryID that names no directory of
\* the caller (no directory at all, also an id that is no uuid, or a
\* directory of another user) fails as a whole with NotFound and without
\* per-item results, and inserts no file row and creates no physical file.
C15_SaveBatchForeignDirectory ==
    /\ []SaveBatchIntoOwnDirectory
    /\ [][SaveBatchRejectedWith({"NotFound"})]_vars

\* the same with the error of the database for an id that is no uuid
C15_SaveBatchSyntaxError ==
    /\ []SaveBatchIntoOwnDirectory
    /\ [][SaveBatchRejectedWith({"ErrSyntaxID"})]_vars

\* one SaveBatch was refused for a directoryID that is no uuid, with the
\* error of the database and not with NotFound, and nothing was written
C15_Witness ==
    \E p \in Procs :
       /\ pc[p] = "idle"
       /\ ret[p].op = "SaveBatch"
       /\ ret[p].stage = "getDirID"
       /\ ret[p].parent = MalformedID
       /\ ret[p].err = "ErrSyntaxID"
       /\ ret[p].results = <<>>
       /\ files = {}
       /\ fsFiles = {}

\* one SaveBatch was refused with NotFound for the id of a directory of
\* another user, which is still without files
SaveBatchForeignRefused ==
    \E p \in Procs :
       /\ pc[p] = "idle"
       /\ ret[p].op = "SaveBatch"
       /\ ret[p].err = "NotFound"
       /\ ret[p].results = <<>>
       /\ \E d \in directories :
             /\ d.id = ret[p].parent
             /\ d.user_id # ret[p].user
             /\ d.parent_id # Null
             /\ \A f \in files : f.directory_id # d.id

\* the last call of caller p was NewPath(u, n, q), and it created a
\* directory
NewPathSucceeded(p) ==
    /\ pc[p] = "idle"
    /\ ret[p].op = "NewPath"
    /\ ret[p].err = NoErr

\* what FindDir finds for the path q + "/" + n of the directory that the
\* last call of caller p, NewPath(u, n, q), created, when it runs next
RoundTrip(p) ==
    FindDir(directories, ret[p].user, RootID(ret[p].user),
            ret[p].arg \o <<"/">> \o ret[p].name)

\* C16: after a successful NewPath(u, n, q), for an existing directory path
\* q of u and a name n unique under it, FindDir(u, root, q + "/" + n)
\* returns the id of the directory just created.
C16_RoundTrip ==
    \A p \in Procs :
       NewPathSucceeded(p) =>
          RoundTrip(p).err = NoErr /\ RoundTrip(p).id = ret[p].id

\* a name that is one element of a cleaned path: not empty, not "." or "..",
\* and without a separator
IsSegment(n) ==
    /\ n # EmptyStr
    /\ n # <<".">>
    /\ n # <<".", ".">>
    /\ \A i \in 1..Len(n) : n[i] # "/"

\* the round trip for names that are one path element
C16_RoundTripOfSegments ==
    \A p \in Procs :
       (NewPathSucceeded(p) /\ IsSegment(ret[p].name)) =>
          RoundTrip(p).err = NoErr /\ RoundTrip(p).id = ret[p].id

\* the directory named "." that NewPath created under the root was looked up
\* by its path, and the root came back
C16_Witness ==
    \E p \in Procs : \E d \in directories :
       /\ pc[p] = "idle"
       /\ ret[p].op = "FindDir"
       /\ ret[p].arg = <<"/", "/", ".">>
       /\ ret[p].err = NoErr
       /\ d.name = <<".">>
       /\ d.user_id = ret[p].user
       /\ d.id # ret[p].id

\* caller p has returned from a successful New
NewSucceeded(p) ==
    /\ pc[p] = "idle"
    /\ ret[p].op = "New"
    /\ ret[p].err = NoErr

\* C17 as stated: New returns a Dir whose Path, the GetDir of the new
\* directory, is the Path of the parent followed by "/" and the name, and
\* the physical directory of the new directory exists.
C17_PathOfNewDirectory ==
    \A p \in Procs :
       NewSucceeded(p) =>
          /\ ret[p].path = GetDir(directories, paths, ret[p].id)
          /\ ret[p].path =
                GetDir(directories, paths, ret[p].parent) \o <<"/">> \o ret[p].name
          /\ GetDirFS(directories, paths, ret[p].id) \in fsDirs

\* C17, amended: New returns a Dir whose Path, the GetDir of the new
\* directory, is the Path of the parent followed by "/" and the name when
\* the parent is not a root, and "/" followed by the name when the parent
\* is a root, whose Path is "/"; the physical directory of the new
\* directory exists.
C17_PathOfNewDirectoryJoined ==
    \A p \in Procs :
       NewSucceeded(p) =>
          LET parentPath == GetDir(directories, paths, ret[p].parent) IN
          /\ ret[p].path = GetDir(directories, paths, ret[p].id)
          /\ ret[p].path =
                (IF parentPath = <<"/">> THEN parentPath ELSE parentPath \o <<"/">>)
                   \o ret[p].name
          /\ GetDirFS(directories, paths, ret[p].id) \in fsDirs

\* a New under a directory that is not a root has returned its Dir
C17_Witness ==
    \E p \in Procs :
       /\ NewSucceeded(p)
       /\ \E d \in directories : d.id = ret[p].parent /\ d.parent_id # Null
       /\ Len(ret[p].path) = 4
       /\ GetDirFS(directories, paths, ret[p].id) \in fsDirs

\* the ways to resolve the segments 2..k of segs, one directory of the user
\* per segment, each the child of the one before, from the root rootID
Chain(D, userID, rootID, segs, k) ==
    {f \in [1..k -> {d.id : d \in D}] :
        /\ f[1] = rootID
        /\ \A j \in 2..k :
              \E r \in D : /\ r.id = f[j]
                           /\ r.user_id = userID
                           /\ r.name = segs[j]
                           /\ r.parent_id = f[j - 1]}

\* the segments of segs that have no matching directory under the directory
\* resolved so far: the first (and only) such index
FirstMissing(D, userID, rootID, segs) ==
    {i \in 2..Len(segs) :
        /\ Chain(D, userID, rootID, segs, i - 1) # {}
        /\ Chain(D, userID, rootID, segs, i) = {}}

\* a step in which a FindDir or NewPath call of caller p returns
PathCallReturned(p) ==
    /\ pc'[p] = "idle"
    /\ ret'[p].op \in {"FindDir", "NewPath"}
    /\ ret'[p].name # EmptyStr \/ ret'[p].op = "FindDir"
    /\ (pc[p] # "idle" \/ ret'[p] # ret[p])

\* C18: when a segment of the path given to FindDir or NewPath has no
\* matching directory under the directory resolved so far, the call fails
\* with NotFound at the first such segment and names it (the path up to and
\* with that segment), and nothing is created for that segment, a later one
\* or the leaf: the step that returns leaves rows and physical directories
\* as they are and no write was begun; FindDir never changes anything, and
\* the only row a failed NewPath has added is the root of the user, made by
\* ValidateUser before the walk.
C18_LeafOnlyCreation ==
    [][\A p \in Procs :
          PathCallReturned(p) =>
             LET r == ret'[p]
                 roots == SelectUserRootDirectory(directories', r.user)
                 segs == PathSegments(r.arg)
             IN  \A root0 \in roots : \A i \in FirstMissing(directories', r.user, root0.id, segs) :
                    /\ r.err = "NotFound"
                    /\ r.path = Join(SubSeq(segs, 2, i), <<"/">>)
                    /\ r.id = EmptyID
                    /\ r.newID = EmptyID
                    /\ directories' = directories
                    /\ paths' = paths
                    /\ fsDirs' = fsDirs
                    /\ cleanups' = cleanups
                    /\ tx' = tx
                    /\ r.op = "NewPath" =>
                          /\ (directories \ r.before.dirs) \subseteq roots
                          /\ \A d \in directories : d.name = r.name => d \in r.before.dirs]_vars

\* NewPath("b", "a/b") was refused where /a exists and /a/b does not
C18_Witness ==
    \E p \in Procs :
       /\ pc[p] = "idle"
       /\ ret[p].op = "NewPath"
       /\ ret[p].err = "NotFound"
       /\ ret[p].arg = <<"a", "/", "b">>
       /\ ret[p].path = <<"a", "/", "b">>
       /\ \E d \in directories : d.name = <<"a">> /\ d.user_id = ret[p].user
       /\ \A d \in directories : d.name # <<"b">>

\* C19: Info is scoped to the owner: for every user u and every file whose
\* row belongs to another user, Info(u, id) fails with NotFound and carries
\* no metadata, which is exactly what Info returns for the id of no file;
\* and an Info call that has returned for such an id returned NotFound with
\* no id, name, directory, path or FileInfo.
C19_InfoOwnershipScoped ==
    /\ \A u \in Users : \A f \in files :
          f.user_id # u =>
             /\ Info(directories, paths, files, fsFiles, u, f.id) = NoFileInfo("NotFound")
             /\ Info(directories, paths, files, fsFiles, u, f.id)
                   = Info(directories, paths, files, fsFiles, u, DanglingID)
    /\ \A p \in Procs :
          (/\ pc[p] = "idle"
           /\ ret[p].op = "Info"
           /\ \E f \in files : f.id = ret[p].arg /\ f.user_id # ret[p].user) =>
             /\ ret[p].err = "NotFound"
             /\ ret[p].results = <<>>
             /\ ret[p].id = EmptyID
             /\ ret[p].name = EmptyStr
             /\ ret[p].path = EmptyStr
             /\ ret[p].parent = EmptyID

\* Info was refused for the id of a file of another user, whose owner gets
\* its FileInfo
C19_Witness ==
    \E p \in Procs : \E f \in files :
       /\ pc[p] = "idle"
       /\ ret[p].op = "Info"
       /\ ret[p].arg = f.id
       /\ f.user_id # ret[p].user
       /\ ret[p].err = "NotFound"
       /\ Info(directories, paths, files, fsFiles, f.user_id, f.id).Err = NoErr

\* a step in which caller p returns from Info, or from the Info that
\* InfoPath calls for the file its path names, for a file whose row exists
\* and belongs to the caller while no physical file is at its path
InfoOfMissingBytes(p) ==
    /\ pc'[p] = "idle"
    /\ ret'[p].op \in {"Info", "InfoPath"}
    /\ ret'[p].stage = "Info"
    /\ (pc[p] # "idle" \/ ret'[p] # ret[p])
    /\ \E f \in files :
          /\ f.id = ret'[p].arg
          /\ f.user_id = ret'[p].user
          /\ ~\E b \in fsFiles :
                 b.path = GetFileFS(directories, paths, f.directory_id, f.id)

\* C20: Info and InfoPath fail with NotFound when the row of the file exists
\* and belongs to the caller but its bytes are missing from the filesystem.
C20_MissingBytesNotFound ==
    [][\A p \in Procs : InfoOfMissingBytes(p) => ret'[p].err = "NotFound"]_vars

\* what Info and InfoPath return then: the error of Stat as it is, with no
\* FileInfo
C20_MissingBytesStatError ==
    [][\A p \in Procs :
          InfoOfMissingBytes(p) =>
             ret'[p].err = "ErrStat" /\ ret'[p].results = <<>>]_vars

\* InfoPath has returned the error of Stat for a file of the caller whose
\* bytes are gone
C20_Witness ==
    \E p \in Procs : \E f \in files :
       /\ pc[p] = "idle"
       /\ ret[p].op = "InfoPath"
       /\ ret[p].arg = f.id
       /\ f.user_id = ret[p].user
       /\ ret[p].err = "ErrStat"
       /\ ~\E b \in fsFiles :
              b.path = GetFileFS(directories, paths, f.directory_id, f.id)

\* the user path of the file named n in directory d: the path of d joined
\* with n, with one separator between them
JoinedPath(d, n) ==
    LET dirPath == GetDir(directories, paths, d)
    IN  (IF dirPath[Len(dirPath)] = "/" THEN dirPath ELSE dirPath \o <<"/">>) \o n

\* the FileInfo that is due for result r of a batch of user u: the id,
\* owner, directory and name of the saved file, the joined path, and the
\* uploaded size, which is the size of the physical file
InfoDue(u, r, info) ==
    /\ info.Err = NoErr
    /\ info.ID = r.ID
    /\ info.OwnerID = u
    /\ info.DirectoryID = r.DirectoryID
    /\ info.Name = r.Name
    /\ info.Path = JoinedPath(r.DirectoryID, r.Name)
    /\ info.Size = r.Size
    /\ \E b \in fsFiles :
          /\ b.path = GetFileFS(directories, paths, r.DirectoryID, r.ID)
          /\ b.size = info.Size

\* C21: for every file a returned batch saved with name n into directory d,
\* Info returns the size of the bytes on disk, which is the uploaded size,
\* the path of d joined with n without a doubled separator for the root,
\* and the id, owner and directory id of the saved file; and the FileInfo
\* an Info or InfoPath call has returned is that of the row with its id:
\* its name, owner and directory, the joined path and the size on disk.
C21_InfoAfterSave ==
    /\ \A p \in Procs :
          (pc[p] = "idle" /\ ret[p].stage = "saveBatch") =>
             \A i \in 1..Len(ret[p].results) :
                ret[p].results[i].Err = NoErr =>
                   InfoDue(ret[p].user, ret[p].results[i],
                           Info(directories, paths, files, fsFiles,
                                ret[p].user, ret[p].results[i].ID))
    /\ \A p \in Procs :
          (pc[p] = "idle" /\ ret[p].op \in {"Info", "InfoPath"} /\ ret[p].err = NoErr) =>
             LET info == ret[p].results[1] IN
             \E f \in files :
                /\ f.id = info.ID
                /\ f.user_id = ret[p].user
                /\ info.OwnerID = f.user_id
                /\ info.DirectoryID = f.directory_id
                /\ info.Name = f.name
                /\ info.Path = JoinedPath(f.directory_id, f.name)
                /\ [path |-> GetFileFS(directories, paths, f.directory_id, f.id),
                    size |-> info.Size] \in fsFiles

\* Info has returned size 1 and the path "/a" for the file "a" of size 1 in
\* the root of its user
C21_Witness ==
    \E p \in Procs :
       /\ pc[p] = "idle"
       /\ ret[p].op = "Info"
       /\ ret[p].err = NoErr
       /\ ret[p].results[1].Path = <<"/", "a">>
       /\ ret[p].results[1].Size = 1
       /\ ret[p].results[1].ID = ret[p].arg
       /\ \E d \in directories :
             d.id = ret[p].results[1].DirectoryID /\ d.parent_id = Null

\* a path without a file name: the empty path, or one that ends with "/"
NoFileName(path) == path = <<>> \/ path[Len(path)] = "/"

\* C22: FindFile fails with InvalidInput whenever the path has no file name
\* (it is empty or ends with "/"), before any directory or file is looked
\* up: in every state the result for such a path is InvalidInput with no
\* id, for every user and root, as it is over an empty store, and so is
\* what a FindFile call with such a path has returned.
C22_FindFileEmptyName ==
    /\ \A u \in Users : \A path \in {a \in FindFileArgs : NoFileName(a)} :
          \A rootID \in {EmptyID} \cup {d.id : d \in directories} :
             /\ FindFile(directories, files, u, rootID, path)
                   = [err |-> "InvalidInput", id |-> EmptyID]
             /\ FindFile(directories, files, u, rootID, path)
                   = FindFile({}, {}, u, rootID, path)
    /\ \A p \in Procs :
          (pc[p] = "idle" /\ ret[p].op = "FindFile" /\ NoFileName(ret[p].arg)) =>
             ret[p].err = "InvalidInput" /\ ret[p].id = EmptyID

\* FindFile was refused for "b/", where no directory "b" exists that a
\* lookup could have missed, and a file exists in the store
C22_Witness ==
    \E p \in Procs :
       /\ pc[p] = "idle"
       /\ ret[p].op = "FindFile"
       /\ ret[p].arg = <<"b", "/">>
       /\ ret[p].err = "InvalidInput"
       /\ \A d \in directories : d.name # <<"b">>
       /\ files # {}

RECURSIVE IdChain(_, _)
\* the ids from the root down to directory id, along the parent ids of the
\* rows D
IdChain(D, id) ==
    LET r == CHOOSE x \in D : x.id = id
    IN  IF r.parent_id = Null THEN <<id>> ELSE IdChain(D, r.parent_id) \o <<id>>

\* the rows D with every user-chosen name replaced by one and the same name
Renamed(D) == {[r EXCEPT !.name = <<"x">>] : r \in D}

\* a physical path made of the storage root and ids only
OnlyIDs(path) ==
    /\ Len(path) >= 1
    /\ path[1] = FSRoot
    /\ \A i \in 2..Len(path) : IsUUID(path[i])

\* C23: physical paths are built from the storage root and ids only: the
\* filesystem path of every committed directory is the storage root, the
\* ids of its ancestors from the root down and its own id, that of every
\* committed file is the filesystem path of its directory and the file id,
\* both are the same when every name in the rows is replaced by another, and
\* every physical directory and file that exists, and every path a write
\* has computed, consists of the storage root and ids.
C23_PhysicalPathsFromIDs ==
    /\ \A d \in directories :
          /\ GetDirFS(directories, paths, d.id)
                = <<FSRoot>> \o IdChain(directories, d.id)
          /\ GetDirFS(Renamed(directories), paths, d.id)
                = GetDirFS(directories, paths, d.id)
    /\ \A f \in files :
          /\ GetFileFS(directories, paths, f.directory_id, f.id)
                = GetDirFS(directories, paths, f.directory_id) \o <<f.id>>
          /\ GetFileFS(Renamed(directories), paths, f.directory_id, f.id)
                = GetFileFS(directories, paths, f.directory_id, f.id)
    /\ \A x \in fsDirs : OnlyIDs(x)
    /\ \A b \in fsFiles : OnlyIDs(b.path)
    /\ \A p \in Procs : w[p].fsPath # NoPath => OnlyIDs(w[p].fsPath)

\* a file named "a" is stored in the directory named "a" of its user, three
\* ids below the storage root
C23_Witness ==
    \E f \in files : \E d \in directories :
       /\ f.name = <<"a">>
       /\ d.id = f.directory_id
       /\ d.name = <<"a">>
       /\ \E b \in fsFiles :
             /\ b.path = GetFileFS(directories, paths, f.directory_id, f.id)
             /\ Len(b.path) = 4

\* a step in which a New or NewPath call of caller p with the empty name
\* returns
EmptyNameReturned(p) ==
    /\ pc[p] = "idle"
    /\ pc'[p] = "idle"
    /\ ret'[p].op \in CreateOps
    /\ ret'[p].name = EmptyStr
    /\ ret'[p] # ret[p]

\* C24: New and NewPath with an empty name fail with InvalidInput before
\* any other step: no call of theirs that is under way (in ValidateUser, in
\* the parentFunc, in the write) or that returned from a later step has the
\* empty name, and the step in which a call with the empty name returns is
\* its first, returns InvalidInput with no Dir, draws no id, opens no
\* transaction, and leaves rows, physical directories and cleanups as they
\* are, so that no root is made for a user without one.
C24_EmptyNameRejectedFirst ==
    /\ [](\A p \in Procs :
             /\ (pc[p] # "idle" /\ call[p].op \in CreateOps) =>
                   /\ w[p].by = "new" => w[p].name # EmptyStr
                   /\ w[p].by # "new" => call[p].name # EmptyStr
                   /\ ret[p] = NoRet
             /\ (pc[p] = "idle" /\ ret[p].op \in CreateOps) =>
                   (ret[p].stage = "name" <=> ret[p].name = EmptyStr))
    /\ [][\A p \in Procs :
             EmptyNameReturned(p) =>
                /\ ret'[p].err = "InvalidInput"
                /\ ret'[p].stage = "name"
                /\ ret'[p].id = EmptyID
                /\ ret'[p].newID = EmptyID
                /\ nextID' = nextID
                /\ tx' = tx
                /\ w'[p] = NoWrite
                /\ directories' = directories
                /\ paths' = paths
                /\ fsDirs' = fsDirs
                /\ cleanups' = cleanups
                /\ SelectUserRootDirectory(directories', ret'[p].user)
                      = SelectUserRootDirectory(ret'[p].before.dirs, ret'[p].user)]_vars

\* NewPath with the empty name was refused for a user who still has no
\* root, while the other user has one
C24_Witness ==
    \E p \in Procs :
       /\ pc[p] = "idle"
       /\ ret[p].op = "NewPath"
       /\ ret[p].err = "InvalidInput"
       /\ ret[p].name = EmptyStr
       /\ SelectUserRootDirectory(directories, ret[p].user) = {}
       /\ directories # {}

\* the relational steps of the directory write of caller p are staged in its
\* transaction and not committed: the directory row, the self edge, one edge
\* per ancestor, and both paths read back from them
StagedDir(p) ==
    LET r == [id |-> w[p].id, user_id |-> w[p].user, name |-> w[p].name,
              parent_id |-> w[p].parent]
    IN  /\ r \in tx[p].dirs
        /\ r \notin directories
        /\ InsertSelfPath(r.id) \subseteq tx[p].paths
        /\ r.parent_id # Null =>
              \A a \in {x \in PathsOf(p) : x.child_id = r.parent_id} :
                 \E e \in tx[p].paths :
                    /\ e.child_id = r.id
                    /\ e.parent_id = a.parent_id
                    /\ e.depth = a.depth + 1
        /\ w[p].fsPath = GetDirFS(DirsOf(p), PathsOf(p), r.id)
        /\ w[p].userPath = GetDir(DirsOf(p), PathsOf(p), r.id)

\* the relational steps of IO.NewDir that have run when caller p is at a
\* position of its directory write: the insert of the row, of the self
\* edge, of the edges of the ancestors, the read of the filesystem path and
\* that of the user path, each after the one before
StagedSoFar(p) ==
    LET r == NewDirRow(p)
        at(positions) == pc[p] \in positions
    IN  /\ at({"InsertDirectory"}) => tx[p] = NoTx
        /\ at({"InsertSelfPath"}) => tx[p] = [NoTx EXCEPT !.dirs = {r}]
        /\ at({"InsertParentPaths"}) =>
              tx[p] = [NoTx EXCEPT !.dirs = {r}, !.paths = InsertSelfPath(r.id)]
        /\ at({"GetDirFS", "GetDir", "Mkdir"}) =>
              /\ tx[p].dirs = {r}
              /\ InsertSelfPath(r.id) \subseteq tx[p].paths
              /\ r.parent_id # Null =>
                    InsertParentPaths(paths, r.parent_id, r.id) \subseteq tx[p].paths
        /\ at({"InsertDirectory", "InsertSelfPath", "InsertParentPaths", "GetDirFS"}) =>
              w[p].fsPath = NoPath
        /\ at({"GetDir", "Mkdir"}) =>
              w[p].fsPath = GetDirFS(DirsOf(p), PathsOf(p), r.id)
        /\ at({"InsertDirectory", "InsertSelfPath", "InsertParentPaths", "GetDirFS",
               "GetDir"}) =>
              w[p].userPath = EmptyStr
        /\ at({"Mkdir"}) => w[p].userPath = GetDir(DirsOf(p), PathsOf(p), r.id)

\* C25: in a directory creation the physical mkdir comes after the insert
\* of the row, of the self edge and of the ancestor edges and after both
\* path reads, and before the commit: the relational steps run one after
\* the other while no physical directory carries the new id; the mkdir step
\* finds all of them staged and uncommitted and neither reads nor writes the
\* store; from the mkdir to the commit the staged rows stay as they are; and
\* a directory write that fails while its physical directory exists fails
\* with the commit error, which it returns when the rollback is done.
C25_MkdirAfterStagingBeforeCommit ==
    /\ [](\A p \in Procs :
             /\ pc[p] \in BeforeMkdir => StagedSoFar(p) /\ DirsNamed(w[p].id) = {}
             /\ pc[p] = "Mkdir" => StagedDir(p) /\ DirsNamed(w[p].id) = {}
             /\ (pc[p] = "Commit" /\ w[p].kind = "dir") =>
                   StagedDir(p) /\ DirsNamed(w[p].id) = {w[p].fsPath})
    /\ [][\A p \in Procs :
             /\ (w[p].kind = "dir" /\ DirsNamed(w[p].id) = {}
                   /\ \E d \in fsDirs' : Len(d) > 1 /\ d[Len(d)] = w[p].id) =>
                   /\ pc[p] = "Mkdir"
                   /\ pc'[p] = "Commit"
                   /\ StagedDir(p)
                   /\ tx' = tx
                   /\ directories' = directories
                   /\ paths' = paths
             /\ (pc[p] = "Commit" /\ w[p].kind = "dir" /\ pc'[p] = "Commit") =>
                   tx'[p] = tx[p]
             /\ (w[p].kind = "dir" /\ DirsNamed(w[p].id) # {} /\ pc'[p] # pc[p]) =>
                   \/ /\ pc[p] = "Commit"
                      /\ tx[p].dirs \subseteq directories'
                      /\ tx[p].paths \subseteq paths'
                   \/ /\ pc[p] = "Commit"
                      /\ pc'[p] = "Rollback"
                      /\ w'[p].err = "ErrCommitTx"
                      /\ tx' = tx
                      /\ directories' = directories
                      /\ paths' = paths
                   \/ /\ pc[p] = "Rollback"
                      /\ w[p].err = "ErrCommitTx"
                      /\ pc'[p] = "idle"
                      /\ ret'[p].err = "ErrCommitTx"
                      /\ directories' = directories
                      /\ paths' = paths]_vars

\* a creation below a directory has made its physical directory, three ids
\* below the storage root, and waits for its commit with the row and three
\* edges staged
C25_Witness ==
    \E p \in Procs :
       /\ pc[p] = "Commit"
       /\ w[p].kind = "dir"
       /\ w[p].fsPath \in fsDirs
       /\ Len(w[p].fsPath) = 4
       /\ Cardinality(tx[p].paths) = 3
       /\ Cardinality(tx[p].dirs) = 1

\* the positions of a directory write inside Store.Tx, after the
\* transaction began
InTx ==
    {"InsertDirectory", "InsertSelfPath", "InsertParentPaths", "GetDirFS",
     "GetDir", "Mkdir", "Commit", "Rollback"}

\* a step in which the Store.Tx call of p's directory write returns, after
\* its transaction began
TxEnds(p) ==
    /\ w[p].kind = "dir"
    /\ pc[p] \in InTx
    /\ pc'[p] \notin InTx

\* a step in which the transaction of p's directory write does not begin
TxBeginFails(p) ==
    /\ w[p].kind = "dir"
    /\ pc[p] = "Begin"
    /\ pc'[p] \notin InTx \cup {"Begin"}

\* the error p's directory write hands back in that step (a ValidateUser
\* whose write made the root hands no error back and goes on)
TxErr(p) ==
    IF pc'[p] = "idle" /\ ret'[p].stage \in {"write", "ValidateUser"}
    THEN ret'[p].err ELSE NoErr

\* the error the transaction function of p's directory write returned: that
\* of the insert, that of os.Mkdir, or none once the directory is made and
\* the DirIO handed out
TxFuncErr(p) ==
    IF w[p].out # NoPath /\ w[p].out \in fsDirs THEN NoErr
    ELSE IF w[p].fsPath # NoPath THEN "ErrMkdir"
    ELSE InsertDirectory(DirsOf(p), [id |-> w[p].id, user_id |-> w[p].user,
                                     name |-> w[p].name, parent_id |-> w[p].parent])

\* C26: Store.Tx commits exactly when the transaction function returned no
\* error (the staged rows become visible, or the error is ErrCommitTx);
\* after an error of the transaction function and after a failed commit the
\* transaction is rolled back before Store.Tx returns, and none of its rows
\* is visible; the error is ErrCommitTx exactly when the commit was tried
\* and failed; and whether or not the rollback fails, the error handed back
\* is the original one.  A transaction that could not begin runs no
\* transaction function, no commit and no rollback.
C26_StoreTxProtocol ==
    /\ [][\A p \in Procs : TxEnds(p) =>
             LET err == TxErr(p)
                 committed == /\ pc[p] = "Commit"
                              /\ directories' = directories \cup tx[p].dirs
                              /\ paths' = paths \cup tx[p].paths
                              /\ tx[p].dirs # {}
                 rolledBack == /\ pc[p] = "Rollback"
                               /\ tx'[p] = NoTx
                               /\ directories' = directories
                               /\ paths' = paths
                 commitTried == committed \/ err = "ErrCommitTx"
             IN  /\ commitTried <=> TxFuncErr(p) = NoErr
                 /\ committed <=> err = NoErr
                 /\ ~committed <=> rolledBack
                 /\ TxFuncErr(p) # NoErr => err = TxFuncErr(p) /\ err # "ErrCommitTx"
                 /\ (pc'[p] = "idle" /\ ret'[p].rbErr) =>
                       err = (IF TxFuncErr(p) = NoErr THEN "ErrCommitTx" ELSE TxFuncErr(p))
         ]_vars
    /\ [][\A p \in Procs :
             (w[p].kind = "dir" /\ pc[p] \in InTx /\ pc'[p] # pc[p]) =>
                /\ pc'[p] = "Commit" <=> (pc[p] = "Mkdir" /\ TxFuncErr(p)' = NoErr)
                /\ pc'[p] = "Rollback" =>
                      /\ w'[p].err # NoErr
                      /\ w'[p].err = "ErrCommitTx" <=> pc[p] = "Commit"
                      /\ pc[p] # "Commit" => w'[p].err = TxFuncErr(p)'
                      /\ tx' = tx
                      /\ directories' = directories
                      /\ paths' = paths]_vars
    /\ [][\A p \in Procs : TxBeginFails(p) =>
             /\ pc'[p] = "idle"
             /\ ret'[p].err = "ErrBeginTx"
             /\ ~ret'[p].rbErr
             /\ tx' = tx
             /\ nextID' = nextID
             /\ directories' = directories
             /\ paths' = paths
             /\ fsDirs' = fsDirs]_vars

\* a commit failed, the rollback after it failed too, and the error handed
\* back is ErrCommitTx
C26_Witness ==
    \E p \in Procs :
       /\ ret[p].rbErr
       /\ ret[p].err = "ErrCommitTx"
       /\ ret[p].op = "New"
       /\ directories # {}

\* C27: a step in which os.Mkdir fails during a directory creation takes
\* the write to the rollback with the error of os.Mkdir, and commits and
\* makes nothing; the step in which the rollback is done drops the staged
\* rows, returns the error of os.Mkdir, leaves the committed rows and the
\* filesystem as they were and schedules no delete; and while the last
\* return of a caller is that error, the id generated for the creation is
\* in no committed directory row or path row, in no open transaction of
\* any caller, and in no scheduled delete.
C27_MkdirFailureRollsBack ==
    /\ [][\A p \in Procs : (pc[p] = "Mkdir" /\ pc'[p] \notin {"Mkdir", "Commit"}) =>
             /\ pc'[p] = "Rollback"
             /\ w'[p].err = "ErrMkdir"
             /\ tx' = tx
             /\ directories' = directories
             /\ paths' = paths
             /\ fsDirs' = fsDirs
             /\ cleanups' = cleanups]_vars
    /\ [][\A p \in Procs : RolledBack(p, {"ErrMkdir"}) =>
             /\ pc'[p] = "idle"
             /\ ret'[p].err = "ErrMkdir"
             /\ ret'[p].id = EmptyID
             /\ ret'[p].newID = w[p].id
             /\ tx'[p] = NoTx
             /\ directories' = directories
             /\ paths' = paths
             /\ fsDirs' = fsDirs
             /\ cleanups' = cleanups]_vars
    /\ [](\A p \in Procs : ret[p].err = "ErrMkdir" =>
             LET id == ret[p].newID IN
             /\ \A q \in Procs :
                   /\ \A r \in DirsOf(q) : r.id # id /\ r.parent_id # id
                   /\ \A e \in PathsOf(q) : e.parent_id # id /\ e.child_id # id
             /\ \A c \in cleanups : c.id # id)

\* the creation of a directory below a committed one has returned the error
\* of os.Mkdir while the other caller has rows staged, and nothing is
\* scheduled
C27_Witness ==
    \E p, q \in Procs :
       /\ p # q
       /\ ret[p].err = "ErrMkdir"
       /\ ret[p].op = "New"
       /\ ret[p].parent # EmptyID
       /\ tx[q].dirs # {}
       /\ cleanups = {}

\* the size of the upload named name among the uploads a client may send
HeaderSize(name) == (CHOOSE h \in Headers : h.Filename = name).Size

\* C28: in every state two concurrent callers reach, Info fails for every
\* user on a file row that is staged in an open transaction (whatever
\* bytes its physical file already holds), Info that succeeds on a
\* committed row reports the size of the whole upload, and an InfoPath
\* that returned a file returned a committed row with the size of the
\* whole upload.
C28_NoPartialFile ==
    /\ \A p \in Procs : \A r \in tx[p].files :
          /\ r \notin files
          /\ \A u \in Users :
                Info(directories, paths, files, fsFiles, u, r.id).Err = "NotFound"
    /\ \A r \in files : \A u \in Users :
          LET file == Info(directories, paths, files, fsFiles, u, r.id) IN
          file.Err = NoErr => file.Size = HeaderSize(r.name)
    /\ \A p \in Procs : (ret[p].op = "InfoPath" /\ ret[p].err = NoErr) =>
          /\ \E r \in files : r.id = ret[p].id
          /\ ret[p].results[1].Size = HeaderSize(ret[p].name)

\* one caller has the empty physical file of a staged row before it, no file
\* row is committed, and the other caller's InfoPath for the name of that
\* file has returned that there is no such file
C28_Witness ==
    \E p, q \in Procs :
       /\ p # q
       /\ pc[p] = "Copy"
       /\ w[p].name = <<"a">>
       /\ tx[p].files # {}
       /\ files = {}
       /\ \E f \in fsFiles : f.path = w[p].fsPath /\ f.size < w[p].size
       /\ ret[q].op = "InfoPath"
       /\ ret[q].stage = "FindFile"
       /\ ret[q].err = "NotFound"

\* C29: no step of any operation (ValidateUser, New, NewPath, SaveBatch,
\* SaveBatchPath, Info, InfoPath, Remove, removeFS, FindDir, FindFile, with
\* their failures) takes away or changes a committed directory row, path
\* row or file row: the committed rows after the step include those before.
C29_CreateOnce ==
    [][/\ directories \subseteq directories'
       /\ paths \subseteq paths'
       /\ files \subseteq files'
       /\ \A r \in directories' \ directories : \A s \in directories : s.id # r.id
       /\ \A r \in files' \ files : \A s \in files : s.id # r.id]_vars

\* a file in a root is committed, a creation has failed and its cleanup has
\* run, and the last call to return was a lookup of a path
C29_Witness ==
    /\ \E f \in files, r \in directories : f.directory_id = r.id
    /\ faults > 0
    /\ cleanups = {}
    /\ ret["p1"].op = "FindDir"

\* the filesystem outside the tree at path is the same after the step
OutsideKept(path) ==
    /\ \A d \in fsDirs : (path # NoPath /\ Under(d, path)) \/ d \in fsDirs'
    /\ \A f \in fsFiles : (path # NoPath /\ Under(f.path, path)) \/ f \in fsFiles'
    /\ fsDirs' \subseteq fsDirs
    /\ fsFiles' \subseteq fsFiles

\* nothing at or below path is on the filesystem after the step
TreeGone(path) ==
    /\ \A d \in fsDirs' : ~Under(d, path)
    /\ \A f \in fsFiles' : ~Under(f.path, path)

\* what a step of DirService.Remove on path does: the rows, committed and
\* staged, stay as they are, the filesystem changes at or below path only,
\* and either the whole tree is gone and nothing is logged, or the path is
\* logged
RemoveEffect(path) ==
    /\ UNCHANGED <<directories, paths, files, tx, nextID>>
    /\ OutsideKept(path)
    /\ \/ (path = NoPath \/ TreeGone(path)) /\ logged' = logged
       \/ logged' = logged \cup {path}

\* C30: a step of DirService.Remove, run detached after a failed commit or
\* called with a path, changes no directory row, path row or file row and
\* nothing on the filesystem outside the tree at the path; it deletes the
\* whole tree, or logs the path when the delete failed; the detached run
\* changes no caller's call, collected results or returned value, and the
\* call returns no error.
C30_RemoveOnlyFilesystem ==
    [][/\ \A c \in cleanups : (c.kind = "dir" /\ cleanups' = cleanups \ {c}) =>
             /\ RemoveEffect(c.path)
             /\ UNCHANGED <<pc, call, w, rd, root, results, ret>>
       /\ \A p \in Procs :
             (pc[p] = "idle" /\ pc'[p] = "idle" /\ cleanups' = cleanups
                /\ ret'[p].op = "Remove") =>
                /\ RemoveEffect(ret'[p].arg)
                /\ ret'[p].err = NoErr
                /\ cleanups' = cleanups]_vars

\* Remove was called with the path of a directory that held a file, the
\* directory and the file are gone from the filesystem, and their rows are
\* still committed
C30_Witness ==
    \E p \in Procs :
       /\ ret[p].op = "Remove"
       /\ \E f \in files : \E r \in directories :
             /\ f.directory_id = r.id
             /\ r.parent_id # EmptyID
             /\ GetDirFS(directories, paths, r.id) = ret[p].arg
             /\ ret[p].arg \notin fsDirs
             /\ \A g \in fsFiles : g.path # GetFileFS(directories, paths, r.id, f.id)
       /\ logged = {}

\* C31: every committed directory with a parent has the owner of its
\* parent, so the chain of parents of every directory ends at the root of
\* its own owner.
C31_ParentHasSameOwner ==
    \A r \in directories :
       /\ r.parent_id # EmptyID =>
             \E s \in directories : s.id = r.parent_id /\ s.user_id = r.user_id
       /\ \E t \in directories :
             /\ t.id = IdChain(directories, r.id)[1]
             /\ t.parent_id = EmptyID
             /\ t.user_id = r.user_id

\* New for one user with the id of another user's root as parent has
\* returned the new directory, which is committed below that root
C31_Witness ==
    \E p \in Procs : \E r, s \in directories :
       /\ ret[p].op = "New"
       /\ ret[p].err = NoErr
       /\ ret[p].id = r.id
       /\ r.user_id = ret[p].user
       /\ r.parent_id = s.id
       /\ s.parent_id = EmptyID
       /\ s.user_id # r.user_id

\* directory r of user u lies below the directory with id top
BelowOwned(D, r, u, top) ==
    /\ r.user_id = u
    /\ r.id # top
    /\ \E i \in 1..Len(IdChain(D, r.id)) : IdChain(D, r.id)[i] = top

\* what the call of FindDir that caller p made last returned
FindDirAnswer(p) == [err |-> ret[p].err, id |-> ret[p].id, missing |-> ret[p].path]

\* the call of FindDir that caller p made last returned what FindDir gives
\* for its user, root id and path over the committed rows
FindDirReturned(p) ==
    ret[p].op = "FindDir" =>
       FindDirAnswer(p) = FindDir(directories, ret[p].user, ret[p].parent, ret[p].arg)

\* C32: for every user, every root id and every path, also with ".." and
\* "." in it, FindDir fails, or returns the root id it was given, or returns
\* the id of a directory of that user that lies below that root; and a call
\* of FindDir that returned an id returned the root id it was given or a
\* directory of the user below it, the result of the walk over the rows.
C32_FindDirStaysBelowRoot ==
    /\ \A u \in Users, top \in WalkRoots, q \in WalkPaths :
          LET found == FindDir(directories, u, top, q) IN
          found.err = NoErr =>
             \/ found.id = top
             \/ \E r \in directories : r.id = found.id /\ BelowOwned(directories, r, u, top)
    /\ \A p \in Procs :
          /\ FindDirReturned(p)
          /\ (ret[p].op = "FindDir" /\ ret[p].err = NoErr) =>
                \/ ret[p].id = ret[p].parent
                \/ \E r \in directories :
                      /\ r.id = ret[p].id
                      /\ BelowOwned(directories, r, ret[p].user, ret[p].parent)

\* FindDir was called with "../.." and returned the directory named ".."
\* that lies in the directory named ".." of the user's root
C32_Witness ==
    \E p \in Procs : \E r, s \in directories :
       /\ ret[p].op = "FindDir"
       /\ ret[p].arg = <<".", ".", "/", ".", ".">>
       /\ ret[p].err = NoErr
       /\ ret[p].id = r.id
       /\ r.name = <<".", ".">>
       /\ r.parent_id = s.id
       /\ s.name = <<".", ".">>
       /\ s.user_id = ret[p].user

\* C33: every file row, committed or staged, is stored in a committed
\* directory row of the same owner.
C33_FileOwnerIsDirectoryOwner ==
    \A f \in files \cup UNION {tx[p].files : p \in Procs} :
       \E d \in directories : d.id = f.directory_id /\ d.user_id = f.user_id

\* both users have a root, and a file saved by path is committed in a
\* directory below the root of its owner
C33_Witness ==
    /\ \A u \in Users : SelectUserRootDirectory(directories, u) # {}
    /\ \E p \in Procs : \E f \in files :
          /\ ret[p].op = "SaveBatchPath"
          /\ Len(ret[p].results) = 1
          /\ ret[p].results[1].ID = f.id
          /\ f.user_id = ret[p].user

\* sequences of up to two segments taken from Segs
SegSeqs(Segs) == {<<>>} \cup {<<x>> : x \in Segs} \cup {<<x, y>> : x, y \in Segs}

\* the ways to write the path of the segments segs: relative, absolute,
\* with a trailing slash, with repeated slashes, and with "." segments
PathForms(segs) ==
    LET rel == Join(segs, <<"/">>) IN
    {rel, <<"/">> \o rel, rel \o <<"/">>, <<"/">> \o rel \o <<"/">>,
     Join(segs, <<"/", "/">>), <<"/", "/">> \o rel,
     <<".", "/">> \o rel, Join(segs, <<"/", ".", "/">>), rel \o <<"/", ".">>}

\* every way to write the path of segments from Segs resolves alike for
\* every user and root id, and the empty path, "." and "/" have no segment
\* to look up and give the root id
Normalized(Segs) ==
    /\ \A q \in {<<>>, <<".">>, <<"/">>} :
          /\ Len(PathSegments(q)) = 1
          /\ \A u \in Users, top \in WalkRoots :
                FindDir(directories, u, top, q) = [err |-> NoErr, id |-> top, missing |-> <<>>]
    /\ \A u \in Users, top \in WalkRoots, segs \in SegSeqs(Segs) :
          \A f \in PathForms(segs) :
             FindDir(directories, u, top, f) =
                FindDir(directories, u, top, Join(segs, <<"/">>))
    /\ \A p \in Procs :
          (ret[p].op = "FindDir" /\ Len(PathSegments(ret[p].arg)) = 1) =>
             FindDirAnswer(p) = [err |-> NoErr, id |-> ret[p].parent, missing |-> <<>>]

\* C34 as claimed: the empty path, "." and "/" return the root id with no
\* lookup, and for every sequence of segments the relative form, the
\* absolute form and the forms with a trailing slash, repeated slashes or
\* "." segments resolve to the same directory id or fail with the same
\* missing segment.
C34_PathNormalization == Normalized({<<"a">>, <<"b">>, <<".">>, <<".", ".">>})

\* C34 amended: the same for every sequence of segments none of which is
\* "..".
C34_PathNormalizationNoDotDot == Normalized({<<"a">>, <<"b">>, <<".">>})

\* a directory named "a" lies in a directory named "a" of a root, and the
\* relative path a/a and the path /a//a/ both resolve to it from that root
C34_Witness ==
    \E r, s \in directories :
       /\ r.name = <<"a">>
       /\ r.parent_id = s.id
       /\ s.name = <<"a">>
       /\ s.parent_id # Null
       /\ FindDir(directories, r.user_id, s.parent_id, <<"a", "/", "a">>).id = r.id
       /\ FindDir(directories, r.user_id, s.parent_id,
                  <<"/", "a", "/", "/", "a", "/">>).id = r.id

====
